---- MODULE Spec2Model ----
(***************************************************************************)
(* Model of the mucgly streaming preprocessor core (src/src/mucgly_mod.c): *)
(* the stack of push-backable input sources (stackfile_t / filestack_t),   *)
(* the per-source hook configuration, the stack of output sinks and the    *)
(* main loop of ps_process_file with macro dispatch (ps_eval_cmd).         *)
(*                                                                         *)
(* Bytes are the numbers 0..255, C strings are sequences of bytes, the     *)
(* NULL pointer is the sentinel NULL.  A value of type int that came from  *)
(* a char is CharVal(b): negative for b >= 128 where char is signed.       *)
(***************************************************************************)
EXTENDS Integers, Sequences, FiniteSets, TLC

VARIABLES
  file,        \* fs->file list: all list cells, head first (stackfile_t records)
  cur,         \* position in file of the cell fs->file points at; 0 is NULL
  in_macro,    \* ps->in_macro
  suspension,  \* ps->suspension
  macro_buf,   \* ps->macro_buf
  output,      \* ps->output: stack of outfile_t records, top first
  post_push,   \* ps->post_push
  post_pop,    \* ps->post_pop
  status,      \* position of the process: "init", "run", "done", "error", "fatal", "crash"
  disk,        \* the files that can be opened for reading: name -> content
  build,       \* what the build leaves open: signedness of char, outcome of undefined behaviour
  log          \* history of parser events (dispatches, source pops), for the properties

vars == <<file, cur, in_macro, suspension, macro_buf, output, post_push,
          post_pop, status, disk, build, log>>

----------------------------------------------------------------------------
(* Bytes and strings *)

EOF == -1
NULL == << -1 >>

NL == 10
SP == 32

\* a local variable: the value v under the name the operator F gives it
Let(v, F(_)) == F(v)

Last(s) == s[Len(s)]
Front(s) == SubSeq(s, 1, Len(s) - 1)

\* int value of a char taken from a string or buffer
CharVal(b) == IF build.char_signed /\ b >= 128 THEN b - 256 ELSE b

\* (char) c: the byte stored when an int is converted to char
ToChar(c) == c % 256

\* s[0] of a C string as a char: the terminating NUL for the empty string
Str0(s) == IF s = <<>> THEN 0 ELSE CharVal(s[1])

\* the C string held at the start of a byte buffer: up to the first NUL
CStr(s) ==
  IF \E i \in DOMAIN s : s[i] = 0
  THEN SubSeq(s, 1, (CHOOSE i \in DOMAIN s : s[i] = 0 /\ \A j \in 1..(i - 1) : s[j] # 0) - 1)
  ELSE s

\* g_strcmp0(a, b) == 0
StrEq(a, b) == a = b

RECURSIVE Flatten(_)
Flatten(ss) == IF ss = <<>> THEN <<>> ELSE Head(ss) \o Flatten(Tail(ss))

IsPrefix(p, s) == Len(p) <= Len(s) /\ SubSeq(s, 1, Len(p)) = p

\* the string that starts at &s[i] (0-based i), empty from the terminator on
StrFrom(s, i) == IF i >= Len(s) THEN <<>> ELSE SubSeq(s, i + 1, Len(s))

----------------------------------------------------------------------------
(* Program constants *)

HOOKBEG_DEFAULT == <<45, 60>>   \* "-<"
HOOKEND_DEFAULT == <<62, 45>>   \* ">-"
HOOKESC_DEFAULT == <<92>>       \* "\\"
MULTI_LIMIT == 128

----------------------------------------------------------------------------
(* hookpair_t *)

hookpair(b, e, s) == [beg |-> b, end |-> e, susp |-> s]

hookpair_cpy(from) == hookpair(from.beg, from.end, from.susp)

----------------------------------------------------------------------------
(* stackfile_t *)

multi_cnt(sf) == Len(sf.multi)

\* Outcome of an operation on a stackfile: the stackfile and how the process goes on.
Ok(sf) == [sf |-> sf, st |-> "run"]
Stop(sf, st) == [sf |-> sf, st |-> st]

\* Undefined behaviour: the build either traps or carries on.
Undefined(sf) == [sf |-> sf, st |-> IF build.ub_traps THEN "crash" ELSE "run"]

\* hook_1st_chars[ i ] = 1 for each i of idx; a negative index is a store outside the table
SetBits(bits, idx) == bits \cup {i \in idx : i >= 0}

sf_mark_macro(sf) ==
  [sf EXCEPT !.macro = TRUE, !.macro_line = sf.lineno, !.macro_col = sf.column]

sf_unmark_macro(sf) == [sf EXCEPT !.macro = FALSE]

\* One pass of sf_get from re_read to the eat_tail test.
sf_read(sf) ==
  Let(Len(sf.buf) > 0, LAMBDA fromBuf :
         Let(IF fromBuf THEN CharVal(Last(sf.buf))
             ELSE IF sf.fh = <<>> THEN EOF ELSE Head(sf.fh), LAMBDA ret :
        Let(IF fromBuf THEN [sf EXCEPT !.buf = Front(sf.buf)]
            ELSE IF sf.fh = <<>> THEN sf ELSE [sf EXCEPT !.fh = Tail(sf.fh)], LAMBDA s1 :
        Let(IF ret = EOF THEN s1
            ELSE IF ret = NL
                 THEN [s1 EXCEPT !.old_column = s1.column,
                                 !.lineno = s1.lineno + 1,
                                 !.column = 0]
                 ELSE [s1 EXCEPT !.column = s1.column + 1], LAMBDA s2 :
     [sf |-> s2, ret |-> ret]))))

\* eat_tail is not looked at
sf_get_no_eat(sf) == sf_read(sf)

sf_get(sf) ==
  Let(sf_read(sf), LAMBDA r1 :
     IF r1.sf.eat_tail
     THEN Let([r1.sf EXCEPT !.eat_tail = FALSE], LAMBDA s :
             IF r1.ret # EOF THEN sf_read(s) ELSE [sf |-> s, ret |-> r1.ret])
     ELSE r1)

\* the newline case is missing: the column is stepped back for every byte
sf_put_no_newline(sf, c) ==
  [sf EXCEPT !.column = sf.column - 1, !.buf = Append(sf.buf, ToChar(c))]

sf_put(sf, c) ==
  Let(ToChar(c), LAMBDA ch :
        Let(IF ch = NL
            THEN [sf EXCEPT !.lineno = sf.lineno - 1,
                            !.column = sf.old_column,
                            !.old_column = 0]
            ELSE [sf EXCEPT !.column = sf.column - 1], LAMBDA s1 :
     [s1 EXCEPT !.buf = Append(s1.buf, ch)]))

sf_update_hook_cache(sf) ==
  IF sf.multi_ptr # "NULL"
  THEN Let([sf EXCEPT !.hook_esc_eq_beg = FALSE, !.hook_esc_eq_end = FALSE], LAMBDA s1 :
           Let(sf.multi_ptr = "heap" /\ multi_cnt(sf) >= 1, LAMBDA valid :
               Let(IF multi_cnt(sf) >= 1 THEN Last(sf.multi)
                   ELSE hookpair(<<build.garbage>>, <<build.garbage>>, NULL), LAMBDA last :
              Let({Str0(last.beg), Str0(last.end), Str0(sf.hookesc)}
                  \cup (IF last.susp # NULL THEN {Str0(last.susp)} ELSE {}), LAMBDA idx :
           Let([s1 EXCEPT !.hook_1st_chars = SetBits(s1.hook_1st_chars, idx)], LAMBDA s2 :
          IF valid /\ \A i \in idx : i >= 0 THEN Ok(s2) ELSE Undefined(s2))))))
  ELSE       Let([sf EXCEPT !.hook_esc_eq_beg = StrEq(sf.hookesc, sf.hook.beg),
                            !.hook_esc_eq_end = StrEq(sf.hookesc, sf.hook.end)], LAMBDA s1 :
           Let({Str0(sf.hook.beg), Str0(sf.hook.end), Str0(sf.hookesc)}, LAMBDA idx :
           Let([s1 EXCEPT !.hook_1st_chars = SetBits({}, idx)], LAMBDA s2 :
          IF sf.hook.beg = NULL \/ sf.hook.end = NULL
          THEN Stop(s1, "crash")     \* sf->hook.beg[0] through a NULL pointer
          ELSE IF \A i \in idx : i >= 0 THEN Ok(s2) ELSE Undefined(s2))))

\* hook is "beg", "end" or "esc" (hook_t)
sf_set_hook(sf, hook, value) ==
  Let(sf.multi_ptr # "NULL" /\ hook # "esc", LAMBDA disable :
        Let(IF disable
            THEN [sf EXCEPT !.multi = <<>>, !.multi_ptr = "freed"]
            ELSE sf, LAMBDA s1 :
        Let(CASE hook = "beg" -> [s1 EXCEPT !.hook.beg = value]
              [] hook = "end" -> [s1 EXCEPT !.hook.end = value]
              [] hook = "esc" ->
                   [s1 EXCEPT !.hook_1st_chars = @ \ {Str0(s1.hookesc)},
                              !.hookesc = value]
              [] OTHER -> s1, LAMBDA s2 :
      Let(sf_update_hook_cache(s2), LAMBDA r :
     IF disable /\ sf.multi_ptr = "freed" /\ build.ub_traps
     THEN Stop(s1, "crash")       \* g_free of the pointer freed before
     ELSE r))))

sf_set_eater(sf, value) == [sf EXCEPT !.eater = value]

\* the pair is added whatever the number of pairs
sf_multi_hook_unlimited(sf, beg, end, susp) ==
  IF StrEq(sf.hookesc, beg) \/ StrEq(sf.hookesc, end)
  THEN Stop(sf, "fatal")
  ELSE sf_update_hook_cache(
         [sf EXCEPT !.multi_ptr = "heap",
                    !.hook_1st_chars = IF sf.multi_ptr = "NULL" THEN {} ELSE @,
                    !.multi = Append(IF sf.multi_ptr = "NULL" THEN <<>> ELSE @,
                                     hookpair(beg, end, susp))])

sf_multi_hook(sf, beg, end, susp) ==
  IF StrEq(sf.hookesc, beg) \/ StrEq(sf.hookesc, end)
  THEN Stop(sf, "fatal")
  ELSE       Let(IF sf.multi_ptr = "NULL"
                 THEN [sf EXCEPT !.multi_ptr = "heap", !.multi = <<>>,
                                 !.hook_1st_chars = {}]
                 ELSE sf, LAMBDA s1 :
          IF multi_cnt(s1) >= MULTI_LIMIT - 1
          THEN Stop(s1, "fatal")
          ELSE IF s1.multi_ptr = "freed" /\ build.ub_traps
          THEN Stop(s1, "crash")   \* store into the freed vector
          ELSE sf_update_hook_cache(
                 [s1 EXCEPT !.multi = Append(s1.multi, hookpair(beg, end, susp))]))

\* the suspension marker of the entries is not handed over
RECURSIVE sf_inherit_multi_no_susp(_, _, _)
sf_inherit_multi_no_susp(r, multi, i) ==
  IF i > Len(multi) \/ r.st # "run" THEN r
  ELSE sf_inherit_multi_no_susp(
         sf_multi_hook(r.sf, multi[i].beg, multi[i].end, NULL), multi, i + 1)

\* the loop of sf_new over inherit->multi, from entry i on: the entries up
\* to the middle one first, then the others
RECURSIVE sf_inherit_multi(_, _, _)
sf_inherit_multi(r, multi, i) ==
  IF i > Len(multi) \/ r.st # "run" THEN r
  ELSE IF i = Len(multi)
  THEN sf_multi_hook(r.sf, multi[i].beg, multi[i].end, multi[i].susp)
  ELSE sf_inherit_multi(
         sf_inherit_multi(r, SubSeq(multi, 1, (i + Len(multi)) \div 2), i),
         multi, (i + Len(multi)) \div 2 + 1)

\* inherit is <<sf>> for a stackfile or <<>> for NULL; the file is opened from disk
sf_new(filename, inherit) ==
           Let([filename |-> filename,
                fh |-> IF filename \in DOMAIN disk THEN disk[filename] ELSE <<>>,
                buf |-> <<>>, lineno |-> 0, column |-> 0, old_column |-> 0,
                macro |-> FALSE, macro_line |-> 0, macro_col |-> 0,
                eat_tail |-> FALSE,
                hook |-> hookpair(HOOKBEG_DEFAULT, HOOKEND_DEFAULT, NULL),
                hookesc |-> HOOKESC_DEFAULT, eater |-> NULL,
                multi |-> <<>>, multi_ptr |-> "NULL", curhook |-> <<>>,
                hook_esc_eq_beg |-> FALSE, hook_esc_eq_end |-> FALSE,
                hook_1st_chars |-> {}], LAMBDA blank :
     IF filename \notin DOMAIN disk
     THEN Stop(blank, "fatal")
     ELSE IF inherit # <<>>
     THEN Let(inherit[1], LAMBDA from :
                Let([blank EXCEPT !.hook = hookpair_cpy(from.hook),
                                  !.hookesc = from.hookesc], LAMBDA s1 :
              Let(sf_update_hook_cache(s1), LAMBDA r1 :
             IF from.multi_ptr # "NULL"
             THEN Let(sf_inherit_multi(r1, from.multi, 1), LAMBDA r2 :
                     IF from.multi_ptr = "freed" /\ multi_cnt(from) > 0
                        /\ build.ub_traps
                     THEN Stop(r2.sf, "crash")   \* reads the freed vector
                     ELSE r2)
             ELSE r1)))
     ELSE sf_update_hook_cache(blank))

----------------------------------------------------------------------------
(* filestack_t and pstate_t: the operations take and return the parser     *)
(* state P, a record of the variables file .. log; a returned value is     *)
(* paired with the state as [P |-> .., ret |-> ..].                          *)

\* stack_default is never set by this module: the NULL stackfile
stack_default == <<>>

ps_has_file(P) == P.cur # 0
ps_topfile(P) == P.file[P.cur]
SetTop(P, sf) == [P EXCEPT !.file[P.cur] = sf]
Logged(P, ev, arg) == [P EXCEPT !.log = Append(P.log, [ev |-> ev, arg |-> arg])]

\* the process ends (exit) or is killed (a read through a NULL pointer)
Halt(P, st) == [P EXCEPT !.status = st]
Running(P) == P.status = "run"

\* a result FALSE (no match, no break) with the state it leaves
No(Q) == [P |-> Q, ret |-> FALSE]

InsertAt(s, i, x) == SubSeq(s, 1, i - 1) \o <<x>> \o SubSeq(s, i, Len(s))
RemoveAt(s, i) == SubSeq(s, 1, i - 1) \o SubSeq(s, i + 1, Len(s))

fs_push_file(P, filename) ==
  Let(sf_new(filename, IF P.cur # 0 THEN <<ps_topfile(P)>> ELSE stack_default), LAMBDA r :
     IF r.st # "run" THEN Halt(P, r.st)
     ELSE Logged(IF P.cur = 0
                 THEN [P EXCEPT !.file = <<r.sf>>, !.cur = 1]
                 ELSE [P EXCEPT !.file = InsertAt(P.file, P.cur, r.sf)],
                 "push",
                 [filename |-> filename, sf |-> r.sf,
                  inherit |-> IF P.cur # 0 THEN <<ps_topfile(P)>> ELSE stack_default]))

\* the new file is on top at once
fs_push_file_at_once(P, filename) == fs_push_file(P, filename)

fs_push_file_delayed(P, filename) ==
  Let(fs_push_file(P, filename), LAMBDA P1 :
     IF ~Running(P1) THEN P1
     ELSE [P1 EXCEPT !.cur = IF P1.cur < Len(P1.file) THEN P1.cur + 1 ELSE 0])

fs_pop_file(P) ==
  IF P.cur = 0 THEN Halt(P, "crash")
  ELSE Let(ps_topfile(P), LAMBDA sf :
           Let(RemoveAt(P.file, P.cur), LAMBDA f1 :
             Let(Logged([P EXCEPT !.file = f1,
                                  !.cur = IF P.cur <= Len(f1) THEN P.cur ELSE 0],
                        "pop",
                        [filename |-> sf.filename, in_macro |-> P.in_macro,
                         eof |-> sf.fh = <<>> /\ sf.buf = <<>>]), LAMBDA P1 :
          IF sf.multi_ptr = "freed" /\ build.ub_traps
          THEN Halt(P1, "crash")    \* sf_rem frees the vector a second time
          ELSE P1)))

fs_get(P) ==
  IF P.cur # 0
  THEN Let(sf_get(ps_topfile(P)), LAMBDA r :    [P |-> SetTop(P, r.sf), ret |-> r.ret])
  ELSE [P |-> P, ret |-> EOF]

RECURSIVE fs_get_one(_)
fs_get_one(P) ==
  IF P.cur = 0 THEN [P |-> P, ret |-> EOF]
  ELSE Let(sf_get(ps_topfile(P)), LAMBDA r :
          IF r.ret # EOF THEN [P |-> SetTop(P, r.sf), ret |-> r.ret]
          ELSE Let(fs_pop_file(SetTop(P, r.sf)), LAMBDA P1 :
                  IF ~Running(P1) \/ P1.cur = 0 THEN [P |-> P1, ret |-> EOF]
                  ELSE fs_get_one(P1)))

fs_put(P, c) ==
  IF P.cur = 0 THEN Halt(P, "crash") ELSE SetTop(P, sf_put(ps_topfile(P), c))

\* ret: the bytes read so far; reads up to n bytes
RECURSIVE fs_get_n(_, _, _)
fs_get_n(P, n, ret) ==
  IF Len(ret) >= n THEN [P |-> P, ret |-> ret]
  ELSE Let(fs_get(P), LAMBDA r :
          IF r.ret # EOF THEN fs_get_n(r.P, n, Append(ret, ToChar(r.ret)))
          ELSE [P |-> r.P, ret |-> ret])

\* the loop of fs_put_n: str[ i-1 ] down to str[ 0 ]
RECURSIVE fs_put_from(_, _, _)
fs_put_from(P, str, i) ==
  IF i = 0 \/ ~Running(P) THEN P ELSE fs_put_from(fs_put(P, str[i]), str, i - 1)

\* the loop runs from str[ 0 ] up: the last byte of str is read first
RECURSIVE fs_put_n_forward(_, _, _)
fs_put_n_forward(P, str, n) ==
  IF n = 0 \/ ~Running(P) THEN P
  ELSE fs_put_n_forward(fs_put(P, Head(str)), Tail(str), n - 1)

fs_put_n(P, str, n) == fs_put_from(P, str, IF n = 0 THEN Len(CStr(str)) ELSE n)

----------------------------------------------------------------------------
(* outfile_t *)

outfile_new(filename) ==
  [filename |-> filename, lineno |-> 0, blocked |-> FALSE, data |-> <<>>]

\* the blocked flag is not looked at
ps_out_unblocked(P, c) ==
  Let(Head(P.output), LAMBDA of :
     IF P.output = <<>> THEN Halt(P, "crash")
     ELSE IF ~Running(P) THEN P
     ELSE [P EXCEPT !.output[1] =
             [of EXCEPT !.lineno = IF c = NL THEN of.lineno + 1 ELSE of.lineno,
                        !.data = Append(of.data, ToChar(c))]])

ps_out(P, c) ==
  Let(Head(P.output), LAMBDA of :
     IF P.output = <<>> THEN Halt(P, "crash")
     ELSE IF ~Running(P) \/ of.blocked THEN P
     ELSE [P EXCEPT !.output[1] =
             [of EXCEPT !.lineno = IF c = NL THEN of.lineno + 1 ELSE of.lineno,
                        !.data = Append(of.data, ToChar(c))]])

\* the string goes to the bottom output file
ps_out_str_bottom(P, str) ==
  IF str = NULL \/ str = <<>> \/ P.output = <<>> THEN P
  ELSE [P EXCEPT !.output[Len(P.output)].data = @ \o str]

RECURSIVE ps_out_str(_, _)
ps_out_str(P, str) ==
  IF str = NULL \/ str = <<>> THEN P
  ELSE ps_out_str(ps_out(P, CharVal(Head(str))), Tail(str))

\* the calls of ps_block_output and ps_unblock_output are put in the history
ps_block_output(P) ==
  IF P.output = <<>> THEN Halt(P, "crash")
  ELSE Logged([P EXCEPT !.output[1].blocked = TRUE], "block", Head(P.output).filename)

ps_unblock_output(P) ==
  IF P.output = <<>> THEN Halt(P, "crash")
  ELSE Logged([P EXCEPT !.output[1].blocked = FALSE], "unblock", Head(P.output).filename)

ps_push_file(P, filename) ==
  Logged([P EXCEPT !.output = <<outfile_new(filename)>> \o P.output],
         "push_output", [filename |-> filename, below |-> P.output])

ps_pop_file(P) ==
  IF P.output = <<>> THEN Halt(P, "crash")
  ELSE Logged([P EXCEPT !.output = Tail(P.output)], "close_output", Head(P.output).filename)

----------------------------------------------------------------------------
(* Probes *)

ps_check_hook(P, c) ==
  IF c = EOF THEN [P |-> P, ret |-> FALSE]
  ELSE IF c < 0
  THEN [P |-> IF build.ub_traps THEN Halt(P, "crash") ELSE P,
        ret |-> build.garbage # 0]      \* a read before the start of the table
  ELSE [P |-> P, ret |-> c \in ps_topfile(P).hook_1st_chars]

ps_check(P, match, erase) ==
  Let(fs_get_n(P, Len(match), <<>>), LAMBDA r :
     IF Len(r.ret) = 0
     THEN [P |-> fs_pop_file(Logged(r.P, "empty_read", match)), ret |-> FALSE]
     ELSE Let(StrEq(CStr(r.ret), match), LAMBDA ret :
             [P |-> IF ~ret \/ ~erase THEN fs_put_n(r.P, r.ret, Len(r.ret)) ELSE r.P,
              ret |-> ret]))

ps_check_hookesc(P) ==
  IF ~ps_has_file(P) THEN [P |-> P, ret |-> FALSE]
  ELSE ps_check(P, ps_topfile(P).hookesc, TRUE)

ps_push_curhook(sf, pair) == [sf EXCEPT !.curhook = <<hookpair_cpy(pair)>> \o sf.curhook]

\* the list returned by g_list_delete_link is dropped
ps_pop_curhook_kept(sf) == sf

\* the caller has tested that curhook is not NULL
ps_pop_curhook(sf) == [sf EXCEPT !.curhook = Tail(sf.curhook)]

\* the loop of ps_check_hookbeg over sf->multi, from entry i on: the entries
\* up to the middle one first, then the others unless the loop was left
RECURSIVE ps_check_multi(_, _, _)
ps_check_multi(P, multi, i) ==
  IF i > Len(multi) THEN [P |-> P, ret |-> FALSE]
  ELSE IF i < Len(multi)
  THEN Let(ps_check_multi(P, SubSeq(multi, 1, (i + Len(multi)) \div 2), i), LAMBDA r :
          IF r.ret \/ ~Running(r.P) THEN r
          ELSE ps_check_multi(r.P, multi, (i + Len(multi)) \div 2 + 1))
  ELSE Let(ps_check(P, multi[i].beg, TRUE), LAMBDA r :
          IF r.ret
          THEN [P |-> IF ps_has_file(r.P)
                      THEN SetTop(r.P, ps_push_curhook(ps_topfile(r.P), multi[i]))
                      ELSE r.P,
                ret |-> TRUE]
          ELSE IF ~Running(r.P) THEN r
          ELSE IF Len(r.P.file) # Len(P.file) /\ build.ub_traps
          THEN [P |-> Halt(r.P, "crash"), ret |-> FALSE]  \* sf was freed by the pop
          ELSE [P |-> r.P, ret |-> FALSE])

\* the loop over sf->multi run from the last entry down to entry i
RECURSIVE ps_check_multi_down(_, _, _)
ps_check_multi_down(P, multi, i) ==
  IF i < 1 THEN [P |-> P, ret |-> FALSE]
  ELSE Let(ps_check(P, multi[i].beg, TRUE), LAMBDA r :
          IF r.ret
          THEN [P |-> IF ps_has_file(r.P)
                      THEN SetTop(r.P, ps_push_curhook(ps_topfile(r.P), multi[i]))
                      ELSE r.P,
                ret |-> TRUE]
          ELSE IF ~Running(r.P) THEN r
          ELSE ps_check_multi_down(r.P, multi, i - 1))

\* in multi mode the pairs are probed from the last one to the first
ps_check_hookbeg_last_first(P) ==
  IF ~ps_has_file(P) THEN [P |-> P, ret |-> FALSE]
  ELSE Let(ps_topfile(P), LAMBDA sf :
          IF sf.multi_ptr # "NULL"
          THEN ps_check_multi_down(P, sf.multi, Len(sf.multi))
          ELSE Let(ps_check(P, sf.hook.beg, TRUE), LAMBDA r :
                  IF r.ret
                  THEN [P |-> SetTop(r.P, ps_push_curhook(ps_topfile(r.P), sf.hook)),
                        ret |-> TRUE]
                  ELSE r))

ps_check_hookbeg(P) ==
  IF ~ps_has_file(P) THEN [P |-> P, ret |-> FALSE]
  ELSE Let(ps_topfile(P), LAMBDA sf :
          IF sf.multi_ptr # "NULL"
          THEN ps_check_multi(P, sf.multi, 1)
          ELSE Let(ps_check(P, sf.hook.beg, TRUE), LAMBDA r :
                  IF r.ret
                  THEN [P |-> SetTop(r.P, ps_push_curhook(ps_topfile(r.P), sf.hook)),
                        ret |-> TRUE]
                  ELSE r))

\* h = ps_topfile(ps)->curhook->data: a read through NULL when curhook is empty
HasCurhook(P) == ps_has_file(P) /\ ps_topfile(P).curhook # <<>>
\* the hook-end of the current pair is taken for its hook-begin
ps_current_hookbeg_end(P) == Head(ps_topfile(P).curhook).end

ps_current_hookbeg(P) == Head(ps_topfile(P).curhook).beg
\* the hook-begin of the current pair is taken for its hook-end
ps_current_hookend_beg(P) == Head(ps_topfile(P).curhook).beg

\* the hook-end of the pair that opened the outermost level
ps_current_hookend_outer(P) ==
  ps_topfile(P).curhook[Len(ps_topfile(P).curhook)].end

ps_current_hookend(P) == Head(ps_topfile(P).curhook).end
ps_current_hooksusp(P) == Head(ps_topfile(P).curhook).susp

ps_check_hookend(P) ==
  IF ~ps_has_file(P) THEN [P |-> P, ret |-> FALSE]
  ELSE IF ~HasCurhook(P) THEN [P |-> Halt(P, "crash"), ret |-> FALSE]
  ELSE ps_check(P, ps_current_hookend(P), TRUE)

\* no suspension marker is ever found
ps_check_hooksusp_never(P) == No(P)

ps_check_hooksusp(P) ==
  IF ~ps_has_file(P) THEN [P |-> P, ret |-> FALSE]
  ELSE IF ~HasCurhook(P) THEN [P |-> Halt(P, "crash"), ret |-> FALSE]
  ELSE IF ps_current_hooksusp(P) # NULL
  THEN ps_check(P, ps_current_hooksusp(P), TRUE)
  ELSE [P |-> P, ret |-> FALSE]

ps_check_eater(P) ==
  IF ~ps_has_file(P) THEN [P |-> P, ret |-> FALSE]
  ELSE IF ps_topfile(P).eater # NULL
  THEN ps_check(P, ps_topfile(P).eater, TRUE)
  ELSE [P |-> P, ret |-> FALSE]

\* the byte read is left in the source
ps_in_peek(P) ==
  Let(fs_get_one(P), LAMBDA r :
     IF r.ret = EOF \/ ~Running(r.P) THEN r ELSE [P |-> fs_put(r.P, r.ret), ret |-> r.ret])

ps_in(P) == fs_get_one(P)

\* the collected byte is also written to the output
ps_collect_echoed(P, c) ==
  ps_out([P EXCEPT !.macro_buf = Append(P.macro_buf, ToChar(c))], c)

ps_collect(P, c) == [P EXCEPT !.macro_buf = Append(P.macro_buf, ToChar(c))]
ps_collect_str(P, str) == [P EXCEPT !.macro_buf = P.macro_buf \o str]

ps_enter_macro(P) ==
  Let([P EXCEPT !.in_macro = P.in_macro + 1], LAMBDA P1 :
     [SetTop(P1, sf_mark_macro(ps_topfile(P1))) EXCEPT !.macro_buf = <<>>])

----------------------------------------------------------------------------
(* The script host's callbacks (the mrb_mucgly functions), each on the top  *)
(* input file or the top output file of ruby_ps.                           *)

ApplyTop(P, r) ==
  IF r.st # "run" THEN Halt(SetTop(P, r.sf), r.st) ELSE SetTop(P, r.sf)

\* sf_set_hook on the bottom file: a configuration shared by the whole stack
SetHookOnBottom(P, hook, value) ==
  Let(P.file[Len(P.file)], LAMBDA sf :
      Let(sf_set_hook(sf, hook, value), LAMBDA r :
      Let([P EXCEPT !.file[Len(P.file)] = r.sf], LAMBDA P1 :
     Logged(IF r.st # "run" THEN Halt(P1, r.st) ELSE P1, "set_hook",
            [hook |-> hook, value |-> value, before |-> sf, after |-> r.sf]))))

\* sf_set_hook on the top file, with the call put in the history
SetHookOnTop(P, hook, value) ==
  Let(ps_topfile(P), LAMBDA sf :
      Let(sf_set_hook(sf, hook, value), LAMBDA r :
     Logged(ApplyTop(P, r), "set_hook",
            [hook |-> hook, value |-> value, before |-> sf, after |-> r.sf])))

mrb_mucgly_write(P, str) == ps_out_str(P, str)
mrb_mucgly_puts(P, str) == ps_out(ps_out_str(P, str), NL)

mrb_mucgly_sethookbeg(P, str) ==
  IF ~ps_has_file(P) THEN Halt(P, "crash")
  ELSE SetHookOnTop(P, "beg", str)

mrb_mucgly_sethookend(P, str) ==
  IF ~ps_has_file(P) THEN Halt(P, "crash")
  ELSE SetHookOnTop(P, "end", str)

mrb_mucgly_sethookesc(P, str) ==
  IF ~ps_has_file(P) THEN Halt(P, "crash")
  ELSE SetHookOnTop(P, "esc", str)

mrb_mucgly_sethook(P, beg, end) ==
  Let(mrb_mucgly_sethookbeg(P, beg), LAMBDA P1 :
     IF ~Running(P1) THEN P1 ELSE mrb_mucgly_sethookend(P1, end))

\* str is a string or NULL (nil)
mrb_mucgly_seteater(P, str) ==
  IF ~ps_has_file(P) THEN Halt(P, "crash")
  ELSE SetTop(P, sf_set_eater(ps_topfile(P), str))

\* one pair or triplet of Mucgly.multihook
mrb_mucgly_multihook(P, beg, end, susp) ==
  IF ~ps_has_file(P) THEN Halt(P, "crash")
  ELSE ApplyTop(P, sf_multi_hook(ps_topfile(P), beg, end, susp))

mrb_mucgly_pushinput(P, str) ==
  Let(fs_push_file_delayed(P, str), LAMBDA P1 :
     IF ~Running(P1) THEN P1 ELSE [P1 EXCEPT !.post_push = TRUE])

\* the call is put in the history with the name of the source on top
mrb_mucgly_closeinput(P) ==
  Logged([P EXCEPT !.post_pop = TRUE], "close_input",
         IF ps_has_file(P) THEN ps_topfile(P).filename ELSE NULL)
mrb_mucgly_pushoutput(P, str) == ps_push_file(P, str)
mrb_mucgly_closeoutput(P) == ps_pop_file(P)
mrb_mucgly_block(P) == ps_block_output(P)
mrb_mucgly_unblock(P) == ps_unblock_output(P)

----------------------------------------------------------------------------
(* The script host.  The interpreter is not part of the program; a script  *)
(* is what it makes the host do: a sequence of statements, each a callback *)
(* named by one byte and followed by its one-byte string arguments (for D  *)
(* a two-byte hook-begin and a one-byte hook-end), or a decimal literal.   *)
(* Any other text raises an exception.  The value of a script is the value *)
(* of its last statement: the literal, or nil.                             *)

KW_nil == <<110, 105, 108>>                                \* "nil"
IsDigit(b) == b >= 48 /\ b <= 57

RECURSIVE Digits(_)
Digits(s) == IF s # <<>> /\ IsDigit(Head(s)) THEN <<Head(s)>> \o Digits(Tail(s)) ELSE <<>>

\* number of argument bytes of the callback named by byte op; -1: not a callback
ScriptArgs(op) ==
  CASE op \in {119, 112, 66, 69, 83, 84, 105, 111} -> 1  \* w p B E S T i o
    [] op \in {72, 109} -> 2                             \* H m
    [] op = 77 -> 3                                      \* M
    [] op \in {78, 99, 113, 98, 117} -> 0                \* N c q b u
    [] op = 68 -> 3                                      \* D
    [] OTHER -> -1

ScriptCall(P, op, a) ==
  CASE op = 119 -> mrb_mucgly_write(P, <<a[1]>>)
    [] op = 112 -> mrb_mucgly_puts(P, <<a[1]>>)
    [] op = 66  -> mrb_mucgly_sethookbeg(P, <<a[1]>>)
    [] op = 69  -> mrb_mucgly_sethookend(P, <<a[1]>>)
    [] op = 83  -> mrb_mucgly_sethookesc(P, <<a[1]>>)
    [] op = 72  -> mrb_mucgly_sethook(P, <<a[1]>>, <<a[2]>>)
    [] op = 84  -> mrb_mucgly_seteater(P, <<a[1]>>)
    [] op = 78  -> mrb_mucgly_seteater(P, NULL)
    [] op = 109 -> mrb_mucgly_multihook(P, <<a[1]>>, <<a[2]>>, NULL)
    [] op = 77  -> mrb_mucgly_multihook(P, <<a[1]>>, <<a[2]>>, <<a[3]>>)
    [] op = 105 -> mrb_mucgly_pushinput(P, <<a[1]>>)
    [] op = 99  -> mrb_mucgly_closeinput(P)
    [] op = 111 -> mrb_mucgly_pushoutput(P, <<a[1]>>)
    [] op = 113 -> mrb_mucgly_closeoutput(P)
    [] op = 98  -> mrb_mucgly_block(P)
    [] op = 117 -> mrb_mucgly_unblock(P)
    [] op = 68  -> mrb_mucgly_multihook(P, <<a[1], a[2]>>, <<a[3]>>, NULL)   \* D
    [] OTHER -> P

\* at most k statements of the script s, one after the other: a half of them
\* first, then the others; s of the result is the script left to run.
\* val: the value of the statements run so far (a string to inspect, or KW_nil)
RECURSIVE ScriptSteps(_, _, _, _)
ScriptSteps(P, s, val, k) ==
  IF s = <<>> \/ ~Running(P) THEN [P |-> P, s |-> <<>>, ret |-> val, exc |-> FALSE]
  ELSE IF k > 1
  THEN Let(ScriptSteps(P, s, val, k \div 2), LAMBDA r :
          IF r.exc THEN r ELSE ScriptSteps(r.P, r.s, r.ret, k - k \div 2))
  ELSE IF IsDigit(Head(s))
  THEN [P |-> P, s |-> StrFrom(s, Len(Digits(s))), ret |-> Digits(s), exc |-> FALSE]
  ELSE IF ScriptArgs(Head(s)) < 0 \/ Len(s) < ScriptArgs(Head(s)) + 1
  THEN [P |-> P, s |-> <<>>, ret |-> NULL, exc |-> TRUE]
  ELSE [P |-> ScriptCall(P, Head(s), SubSeq(s, 2, ScriptArgs(Head(s)) + 1)),
        s |-> StrFrom(s, ScriptArgs(Head(s)) + 1), ret |-> KW_nil, exc |-> FALSE]

\* the whole script: it has at most one statement a byte
ScriptRun(P, s, val) ==
  Let(ScriptSteps(P, s, val, Len(s) + 1), LAMBDA r :
     [P |-> r.P, ret |-> r.ret, exc |-> r.exc])

\* ps_current_file: <<sf>> for the top source, <<>> for NULL
ps_current_file(P) == IF ~ps_has_file(P) THEN <<>> ELSE <<ps_topfile(P)>>

\* the location a message starts with, <<>> when it has none: the start of
\* the macro when the source is marked as in a macro
mucgly_user_info_str(at) ==
  IF at = <<>> THEN <<>>
  ELSE <<[filename |-> at[1].filename,
          lineno |-> (IF at[1].macro THEN at[1].macro_line ELSE at[1].lineno) + 1,
          column |-> (IF at[1].macro THEN at[1].macro_col ELSE at[1].column) + 1]>>

\* the message goes to stderr and the process exits
mucgly_error(P, at, msg) ==
  Logged(Halt(P, "error"), "error", [at |-> mucgly_user_info_str(at), msg |-> msg])
mucgly_fatal(P) == Halt(P, "fatal")

ps_eval_ruby_str(P, str, to_str) ==
  Let(ScriptRun(P, str, KW_nil), LAMBDA r :
     IF ~Running(r.P) THEN [P |-> r.P, ret |-> NULL]
     ELSE IF r.exc
     THEN [P |-> mucgly_error(r.P, ps_current_file(r.P), "exception"), ret |-> NULL]
     ELSE [P |-> r.P, ret |-> IF to_str THEN r.ret ELSE NULL])

\* mrb_load_file: the exception of a loaded file is not looked at
ps_load_ruby_file(P, filename) ==
  IF filename \in DOMAIN disk THEN ScriptRun(P, CStr(disk[filename]), KW_nil).P ELSE P

----------------------------------------------------------------------------
(* Macro dispatch *)

KW_hookbeg == <<58, 104, 111, 111, 107, 98, 101, 103>>     \* ":hookbeg"
KW_hookend == <<58, 104, 111, 111, 107, 101, 110, 100>>    \* ":hookend"
KW_hookesc == <<58, 104, 111, 111, 107, 101, 115, 99>>     \* ":hookesc"
KW_eater == <<58, 101, 97, 116, 101, 114>>                 \* ":eater"
KW_hookall == <<58, 104, 111, 111, 107, 97, 108, 108>>     \* ":hookall"
KW_hook == <<58, 104, 111, 111, 107>>                      \* ":hook"
KW_include == <<58, 105, 110, 99, 108, 117, 100, 101>>     \* ":include"
KW_source == <<58, 115, 111, 117, 114, 99, 101>>           \* ":source"
KW_block == <<58, 98, 108, 111, 99, 107>>                  \* ":block"
KW_unblock == <<58, 117, 110, 98, 108, 111, 99, 107>>      \* ":unblock"
KW_comment == <<58, 99, 111, 109, 109, 101, 110, 116>>     \* ":comment"
KW_exit == <<58, 101, 120, 105, 116>>                      \* ":exit"

\* the keyword must be the whole command
len_str_eq(str1, str2) == str1 = str2

\* len_str_cmp( str1, str2 ) # 0
len_str_cmp(str1, str2) == IsPrefix(str1, str2)

\* &cmd[ len+1 ]; when cmd ends at len this is the memory after the terminator
ArgOf(cmd, len) ==
  IF Len(cmd) > len THEN StrFrom(cmd, len + 1) ELSE CStr(<<build.garbage>>)

\* g_strsplit( str, " ", 2 )
RECURSIVE UpToSpace(_)
UpToSpace(str) ==
  IF str = <<>> \/ Head(str) = SP THEN <<>> ELSE <<Head(str)>> \o UpToSpace(Tail(str))

g_strsplit2(str) ==
  IF str = <<>> THEN <<>>
  ELSE Let(UpToSpace(str), LAMBDA first :
          IF Len(first) = Len(str) THEN <<str>>
          ELSE <<first, StrFrom(str, Len(first) + 1)>>)

\* ps_get_macro: the effective body, and eat_tail set for a leading '+'
ps_get_macro(P) ==
  IF P.macro_buf # <<>> /\ Head(P.macro_buf) = 43
  THEN [P |-> IF ps_has_file(P) THEN [P EXCEPT !.file[P.cur].eat_tail = TRUE]
              ELSE Halt(P, "crash"),
        ret |-> CStr(Tail(P.macro_buf))]
  ELSE [P |-> P, ret |-> CStr(P.macro_buf)]

\* sf_set_hook on the top file, three times in a row where the state allows
SetHookAt(Q, hooks, values, i) ==
  IF ~Running(Q) \/ i > Len(hooks) THEN Q
  ELSE IF ~ps_has_file(Q) THEN Halt(Q, "crash")
  ELSE SetHookOnTop(Q, hooks[i], values[i])

\* the first value is stored in all three delimiters
SetHooksAll(P, hooks, values) ==
  SetHookAt(SetHookAt(SetHookAt(P, <<"beg", "end", "esc">>,
                                <<values[1], values[1], values[1]>>, 1),
                      <<"beg", "end", "esc">>, <<values[1], values[1], values[1]>>, 2),
            <<"beg", "end", "esc">>, <<values[1], values[1], values[1]>>, 3)

SetHooks(P, hooks, values) ==
  SetHookAt(SetHookAt(SetHookAt(P, hooks, values, 1), hooks, values, 2), hooks, values, 3)

ps_internal_cmd(P, cmd) ==
     IF len_str_cmp(KW_hookbeg, cmd)
     THEN No(SetHooks(P, <<"beg">>, <<ArgOf(cmd, Len(KW_hookbeg))>>))
     ELSE IF len_str_cmp(KW_hookend, cmd)
     THEN No(SetHooks(P, <<"end">>, <<ArgOf(cmd, Len(KW_hookend))>>))
     ELSE IF len_str_cmp(KW_hookesc, cmd)
     THEN No(SetHooks(P, <<"esc">>, <<ArgOf(cmd, Len(KW_hookesc))>>))
     ELSE IF len_str_cmp(KW_eater, cmd)
     THEN No(SetTop(P, sf_set_eater(ps_topfile(P), ArgOf(cmd, Len(KW_eater)))))
     ELSE IF len_str_cmp(KW_hookall, cmd)
     THEN Let(ArgOf(cmd, Len(KW_hookall)), LAMBDA v :
             No(SetHooks(P, <<"beg", "end", "esc">>, <<v, v, v>>)))
     ELSE IF len_str_cmp(KW_hook, cmd)
     THEN Let(g_strsplit2(ArgOf(cmd, Len(KW_hook))), LAMBDA pieces :
             IF Len(pieces) = 2
             THEN No(SetHooks(P, <<"beg", "end">>, pieces))
             ELSE IF Len(pieces) = 1
             THEN No(SetHooks(P, <<"beg", "end">>, <<pieces[1], pieces[1]>>))
             ELSE No(SetHooks(P, <<"beg", "end">>, <<NULL, NULL>>)))
     ELSE IF len_str_cmp(KW_include, cmd)
     THEN Let(fs_push_file_delayed(P, ArgOf(cmd, Len(KW_include))), LAMBDA P1 :
             No(IF Running(P1) THEN [P1 EXCEPT !.post_push = TRUE] ELSE P1))
     ELSE IF len_str_cmp(KW_source, cmd)
     THEN No(ps_load_ruby_file(P, ArgOf(cmd, Len(KW_source))))
     ELSE IF len_str_cmp(KW_block, cmd) THEN No(ps_block_output(P))
     ELSE IF len_str_cmp(KW_unblock, cmd) THEN No(ps_unblock_output(P))
     ELSE IF len_str_cmp(KW_comment, cmd) THEN No(P)
     ELSE IF len_str_cmp(KW_exit, cmd) THEN [P |-> P, ret |-> TRUE]
     ELSE IF ~ps_has_file(P) THEN No(Halt(P, "crash"))
     ELSE No(mucgly_error(P, <<ps_topfile(P)>>, "Unknown internal command"))

\* returns whether input processing should be aborted
ps_eval_cmd(P) ==
  Let(ps_get_macro(P), LAMBDA g :
      Let(g.ret, LAMBDA cmd :
      Let(IF cmd = <<>> THEN 0 ELSE cmd[1], LAMBDA c0 :
      Let(Logged(g.P, "dispatch", cmd), LAMBDA P1 :
     IF ~Running(P1) THEN No(P1)
     ELSE IF c0 = 58 THEN ps_internal_cmd(P1, cmd)                     \* ':'
     ELSE IF c0 = 46                                                  \* '.'
     THEN Let(ps_eval_ruby_str(P1, StrFrom(cmd, 1), TRUE), LAMBDA r :
             No(IF Running(r.P) THEN ps_out_str(r.P, r.ret) ELSE r.P))
     ELSE IF c0 = 47 THEN No(P1)                                      \* '/'
     ELSE IF c0 = 35                                                  \* '#'
     THEN IF ~HasCurhook(P1) THEN No(Halt(P1, "crash"))
          ELSE No(ps_out_str(ps_out_str(ps_out_str(P1, ps_current_hookbeg(P1)),
                                        StrFrom(cmd, 1)),
                             ps_current_hookend(P1)))
     ELSE No(ps_eval_ruby_str(P1, cmd, FALSE).P)))))

\* the hook-end sequence takes two levels off in_macro
ps_process_hook_end_seq_by_two(P) ==
  Let([P EXCEPT !.in_macro = P.in_macro - 2], LAMBDA P1 :
     IF P1.in_macro < 0 THEN No(mucgly_fatal(P1))
     ELSE IF P1.in_macro # 0
     THEN IF ~HasCurhook(P1) THEN No(Halt(P1, "crash"))
          ELSE Let(ps_out_str(P1, ps_current_hookend(P1)), LAMBDA P2 :
                  No(IF Running(P2) THEN SetTop(P2, ps_pop_curhook(ps_topfile(P2)))
                     ELSE P2))
     ELSE Let(ps_eval_cmd(P1), LAMBDA e :
             IF ~Running(e.P) THEN No(e.P)
             ELSE IF ~HasCurhook(e.P) THEN No(Halt(e.P, "crash"))
             ELSE No(SetTop(e.P, ps_pop_curhook(sf_unmark_macro(ps_topfile(e.P)))))))

ps_process_hook_end_seq(P) ==
  Let([P EXCEPT !.in_macro = P.in_macro - 1], LAMBDA P1 :
     IF P1.in_macro < 0 THEN No(mucgly_fatal(P1))
     ELSE IF P1.in_macro # 0
     THEN IF ~HasCurhook(P1) THEN No(Halt(P1, "crash"))
          ELSE Let(ps_out_str(P1, ps_current_hookend(P1)), LAMBDA P2 :
                  No(IF Running(P2) THEN SetTop(P2, ps_pop_curhook(ps_topfile(P2)))
                     ELSE P2))
     ELSE Let(ps_eval_cmd(P1), LAMBDA e :
             IF ~Running(e.P) THEN No(e.P)
             ELSE IF ~HasCurhook(e.P) THEN No(Halt(e.P, "crash"))
             ELSE Let(SetTop(e.P, ps_pop_curhook(sf_unmark_macro(ps_topfile(e.P)))), LAMBDA P2 :
                        Let(IF P2.post_push
                            THEN [P2 EXCEPT !.post_push = FALSE, !.cur = P2.cur - 1]
                            ELSE P2, LAMBDA P3 :
                        Let(IF P3.post_pop
                            THEN fs_pop_file([P3 EXCEPT !.post_pop = FALSE])
                            ELSE P3, LAMBDA P4 :
                     [P |-> P4, ret |-> e.ret])))))

\* do_break is not looked at
BreakIgnored(r) == r.P

\* the process has left the main loop when do_break is set
Break(r) == IF Running(r.P) /\ r.ret THEN Halt(r.P, "done") ELSE r.P

ps_process_non_hook_seq(P, c) ==
  IF P.in_macro # 0
  THEN IF c = EOF THEN mucgly_error(P, ps_current_file(P), "Got EOF within macro!")
       ELSE ps_collect(P, c)
  ELSE IF c = EOF THEN Halt(P, "done") ELSE ps_out(P, c)

----------------------------------------------------------------------------
(* The main loop of ps_process_file: one iteration *)

\* the byte after the escape is read and dropped
ps_escape_dropped(P) == ps_in(P).P

\* the byte after the escape is left to the next iteration
ps_escape_skipped(P) == P

\* an escape equal to the hook-end never closes the macro
ps_escape_in_macro_no_end(P) ==
  Let(ps_in(P), LAMBDA r :
      Let(r.ret, LAMBDA c :
     IF ~Running(r.P) THEN r.P
     ELSE IF c = EOF THEN mucgly_error(r.P, ps_current_file(r.P), "Got EOF within macro!")
     ELSE Let(ps_topfile(r.P), LAMBDA sf :
             IF sf.eater # NULL /\ Str0(sf.eater) = c
             THEN Let(ps_check_eater(fs_put(r.P, c)), LAMBDA e :
                     IF ~Running(e.P) THEN e.P
                     ELSE IF e.ret THEN ps_in(e.P).P
                     ELSE ps_collect(e.P, c))
             ELSE ps_collect(r.P, c))))

\* escape matched inside a macro
ps_escape_in_macro(P) ==
  Let(ps_in(P), LAMBDA r :
      Let(r.ret, LAMBDA c :
     IF ~Running(r.P) THEN r.P
     ELSE IF c = EOF THEN mucgly_error(r.P, ps_current_file(r.P), "Got EOF within macro!")
     ELSE Let(ps_topfile(r.P), LAMBDA sf :
             IF (c = SP \/ c = NL) /\ sf.hook_esc_eq_end
             THEN Break(ps_process_hook_end_seq(r.P))
             ELSE IF sf.eater # NULL /\ Str0(sf.eater) = c
             THEN Let(ps_check_eater(fs_put(r.P, c)), LAMBDA e :
                     IF ~Running(e.P) THEN e.P
                     ELSE IF e.ret THEN ps_in(e.P).P
                     ELSE ps_collect(e.P, c))
             ELSE ps_collect(r.P, c))))

\* with the escape equal to the hook-begin the byte after the escape is not
\* put back when the macro is entered
ps_escape_out_macro_eats(P) ==
  Let(ps_in(P), LAMBDA r :
      Let(r.ret, LAMBDA c :
     IF ~Running(r.P) THEN r.P
     ELSE IF c = EOF THEN Halt(r.P, "done")
     ELSE Let(ps_topfile(r.P), LAMBDA sf :
             IF sf.eater # NULL /\ Str0(sf.eater) = c
             THEN Let(ps_check_eater(fs_put(r.P, c)), LAMBDA e :
                     IF ~Running(e.P) THEN e.P
                     ELSE IF e.ret THEN ps_in(e.P).P
                     ELSE ps_out(e.P, c))
             ELSE IF ToChar(c) = NL \/ ToChar(c) = SP THEN r.P
             ELSE IF sf.hook_esc_eq_beg
             THEN IF Len(sf.hookesc) <= 1 /\ c = Str0(sf.hookesc)
                  THEN ps_out(r.P, c)
                  ELSE ps_enter_macro(
                         SetTop(r.P, ps_push_curhook(ps_topfile(r.P), ps_topfile(r.P).hook)))
             ELSE ps_out(r.P, c))))

\* escape matched outside a macro
ps_escape_out_macro(P) ==
  Let(ps_in(P), LAMBDA r :
      Let(r.ret, LAMBDA c :
     IF ~Running(r.P) THEN r.P
     ELSE IF c = EOF THEN Halt(r.P, "done")
     ELSE Let(ps_topfile(r.P), LAMBDA sf :
             IF sf.eater # NULL /\ Str0(sf.eater) = c
             THEN Let(ps_check_eater(fs_put(r.P, c)), LAMBDA e :
                     IF ~Running(e.P) THEN e.P
                     ELSE IF e.ret THEN ps_in(e.P).P
                     ELSE ps_out(e.P, c))
             ELSE IF ToChar(c) = NL \/ ToChar(c) = SP THEN r.P
             ELSE IF sf.hook_esc_eq_beg
             THEN IF Len(sf.hookesc) <= 1 /\ c = Str0(sf.hookesc)
                  THEN ps_out(r.P, c)
                  ELSE Let(fs_put(r.P, c), LAMBDA P1 :
                          ps_enter_macro(
                            SetTop(P1, ps_push_curhook(ps_topfile(P1), ps_topfile(P1).hook))))
             ELSE ps_out(r.P, c))))

\* the first char of a hook was seen and put back: the probes in their order
ps_process_hook_seq(P) ==
  Let(ps_check_hookesc(P), LAMBDA esc :
      Let(P.in_macro # 0, LAMBDA inm :
      Let(IF inm /\ Running(esc.P) THEN ps_check_hooksusp(esc.P) ELSE No(esc.P), LAMBDA susp :
      Let(IF inm /\ Running(susp.P) THEN ps_check_hookend(susp.P) ELSE No(susp.P), LAMBDA end :
      Let(IF Running(end.P) THEN ps_check_hookbeg(end.P) ELSE No(end.P), LAMBDA beg :
     IF ~Running(esc.P) THEN esc.P
     ELSE IF esc.ret
     THEN IF inm THEN ps_escape_in_macro(esc.P) ELSE ps_escape_out_macro(esc.P)
     ELSE IF ~Running(susp.P) THEN susp.P
     ELSE IF susp.ret
     THEN ps_collect_str([susp.P EXCEPT !.suspension = susp.P.suspension + 1],
                         ps_current_hooksusp(susp.P))
     ELSE IF ~Running(end.P) THEN end.P
     ELSE IF end.ret
     THEN IF end.P.suspension = 0
          THEN Break(ps_process_hook_end_seq(end.P))
          ELSE ps_collect_str([end.P EXCEPT !.suspension = end.P.suspension - 1],
                              ps_current_hookend(end.P))
     ELSE IF ~Running(beg.P) THEN beg.P
     ELSE IF beg.ret
     THEN IF inm
          THEN IF ~HasCurhook(beg.P) THEN Halt(beg.P, "crash")
               ELSE ps_out_str([beg.P EXCEPT !.in_macro = beg.P.in_macro + 1],
                               ps_current_hookbeg(beg.P))
          ELSE IF ~ps_has_file(beg.P) THEN Halt(beg.P, "crash")
          ELSE ps_enter_macro(beg.P)
     ELSE Let(ps_in(beg.P), LAMBDA r :
             IF ~Running(r.P) THEN r.P ELSE ps_process_non_hook_seq(r.P, r.ret)))))))

ps_process_char(P) ==
  Let(ps_in(P), LAMBDA r :
      Let(ps_check_hook(r.P, r.ret), LAMBDA h :
     IF ~Running(r.P) THEN r.P
     ELSE IF ~Running(h.P) THEN h.P
     ELSE IF h.ret THEN ps_process_hook_seq(fs_put(r.P, r.ret))
     ELSE ps_process_non_hook_seq(r.P, r.ret)))

----------------------------------------------------------------------------
(* The state machine *)

State == [file |-> file, cur |-> cur, in_macro |-> in_macro,
          suspension |-> suspension, macro_buf |-> macro_buf, output |-> output,
          post_push |-> post_push, post_pop |-> post_pop, status |-> status,
          log |-> log]

Becomes(P) ==
  /\ file' = P.file
  /\ cur' = P.cur
  /\ in_macro' = P.in_macro
  /\ suspension' = P.suspension
  /\ macro_buf' = P.macro_buf
  /\ output' = P.output
  /\ post_push' = P.post_push
  /\ post_pop' = P.post_pop
  /\ status' = P.status
  /\ log' = P.log
  /\ UNCHANGED <<disk, build>>

\* ps_new: the state of a new pstate_t
ps_new ==
  [file |-> <<>>, cur |-> 0, in_macro |-> 0, suspension |-> 0, macro_buf |-> <<>>,
   output |-> <<outfile_new(NULL)>>, post_push |-> FALSE, post_pop |-> FALSE,
   status |-> "init", log |-> <<>>]


MainName == <<109>>     \* "m": the infile of ps_process_file
IncName == <<102>>      \* "f": a file that can be included
SrcName == <<103>>      \* "g": a second file that can be included

\* all sequences of at most n members of S
RECURSIVE SeqsUpTo(_, _)
SeqsUpTo(S, n) ==
  IF n = 0 THEN {<<>>}
  ELSE Let(SeqsUpTo(S, n - 1), LAMBDA shorter :
          shorter \cup {Append(t, x) : t \in {u \in shorter : Len(u) = n - 1}, x \in S})

Builds == [char_signed : BOOLEAN, ub_traps : BOOLEAN, garbage : {0, 62}]

\* the initial states: a new pstate_t, the files on disk and the build
InitWith(mains, incs, srcs, builds) ==
  /\ \E m \in mains, f \in incs, g \in srcs :
       disk = (MainName :> m) @@ (IncName :> f) @@ (SrcName :> g)
  /\ build \in builds
  /\ file = ps_new.file
  /\ cur = ps_new.cur
  /\ in_macro = ps_new.in_macro
  /\ suspension = ps_new.suspension
  /\ macro_buf = ps_new.macro_buf
  /\ output = ps_new.output
  /\ post_push = ps_new.post_push
  /\ post_pop = ps_new.post_pop
  /\ status = ps_new.status
  /\ log = ps_new.log

\* ps_process_file up to the loop: the infile is pushed
Start ==
  /\ status = "init"
  /\ Becomes(fs_push_file([State EXCEPT !.status = "run"], MainName))

\* one iteration of the loop of ps_process_file
ProcessChar ==
  /\ status = "run"
  /\ Becomes(ps_process_char(State))

Next == Start \/ ProcessChar

\* the files made of at most n of the pieces
Inputs(pieces, n) == {Flatten(t) : t \in SeqsUpTo(pieces, n)}

----------------------------------------------------------------------------
(* The parser on files with the default hooks: text, macros, an escape,    *)
(* newlines, a byte above 127, an include.                                 *)

MaxPieces == 3

Pieces ==
  { <<45, 60>>,      \* "-<"
    <<62, 45>>,      \* ">-"
    <<45>>,          \* "-"
    <<97>>,          \* "a"
    <<10>>,          \* newline
    <<45, 60, 43, 47, 62, 45>>,      \* "-<+/>-"
    <<255>>,         \* the byte 0xFF
    <<45, 60, 58, 105, 110, 99, 108, 117, 100, 101, 32, 102, 62, 45>> }  \* "-<:include f>-"

Included ==
  { <<45, 60, 47, 97>>,   \* "-</a"
    <<98, 62, 45, 99>> }  \* "b>-c"

Init == InitWith(Inputs(Pieces, MaxPieces), Included, {<<>>}, Builds)

Spec == Init /\ [][Next]_vars

----------------------------------------------------------------------------
(* The parser in multi mode: the main file first sets the pair "(" ")"     *)
(* with the suspension marker "[" and opens a comment macro of that pair,  *)
(* then holds hook-begins, hook-ends and suspension markers.               *)

MaxMultiPieces == 6

MultiPrefix == <<45, 60, 77, 40, 41, 91, 62, 45, 40, 47>>   \* "-<M()[>-(/"

MultiPieces ==
  { <<40>>,         \* "("
    <<41>>,         \* ")"
    <<91>> }        \* "["

InitMulti ==
  InitWith({MultiPrefix \o m : m \in Inputs(MultiPieces, MaxMultiPieces)},
           {<<>>}, {<<>>}, Builds)

SpecMulti == InitMulti /\ [][Next]_vars

----------------------------------------------------------------------------
(* The parser on plain files with the default hooks: text, a lone first    *)
(* byte of a hook, macros that write a value, the '+' prefix, an escape.   *)

MaxPlainPieces == 4

PlainPieces ==
  { <<45, 60>>,      \* "-<"
    <<62, 45>>,      \* ">-"
    <<97>>,          \* "a"
    <<45>>,          \* "-"
    <<46, 49>>,      \* ".1"
    <<43>>,          \* "+"
    <<92>> }         \* the escape
 
InitPlain == InitWith(Inputs(PlainPieces, MaxPlainPieces), {<<>>}, {<<>>}, Builds)

SpecPlain == InitPlain /\ [][Next]_vars

----------------------------------------------------------------------------
(* The parser on files that reconfigure the top source: one macro of the   *)
(* default pair whose script is a sequence of calls that add multihooks,   *)
(* set the hook-begin, the escape and the eater, and push the file f; the  *)
(* escape is first left alone or set to the two bytes "[x" by a directive. *)

MaxConfigOps == 3

ConfigPrefixes ==
  { <<>>,
    <<45, 60, 58, 104, 111, 111, 107, 101, 115, 99, 32, 91, 120, 62, 45>> }  \* "-<:hookesc [x>-"

ConfigOps ==
  { <<109, 91, 93>>,        \* "m[]"
    <<77, 40, 41, 123>>,    \* "M(){"
    <<83, 33>>,             \* "S!"
    <<83, 40>>,             \* "S("
    <<66, 123>>,            \* "B{"
    <<84, 120>>,            \* "Tx"
    <<105, 102>> }          \* "if"

ConfigIncluded == { <<97>> }     \* "a"

ConfigMains ==
  { p \o <<45, 60>> \o ops \o <<62, 45>> :
      p \in ConfigPrefixes, ops \in Inputs(ConfigOps, MaxConfigOps) }

InitConfig == InitWith(ConfigMains, ConfigIncluded, {<<>>}, Builds)

SpecConfig == InitConfig /\ [][Next]_vars

----------------------------------------------------------------------------
(* The parser on short files with the default hooks whose probes push      *)
(* bytes back: a lone first byte of a hook, newlines, a macro with the '+' *)
(* prefix.                                                                 *)

MaxPutBackPieces == 3

PutBackPieces ==
  { <<45>>,                       \* "-"
    <<10>>,                       \* newline
    <<97>>,                       \* "a"
    <<45, 60>>,                   \* "-<"
    <<45, 60, 43, 47, 62, 45>> }  \* "-<+/>-"

InitPutBack == InitWith(Inputs(PutBackPieces, MaxPutBackPieces), {<<>>}, {<<>>}, Builds)

SpecPutBack == InitPutBack /\ [][Next]_vars

----------------------------------------------------------------------------
(* The parser on a main file that includes: text, the :include directive,  *)
(* scripts that push an input and then set the escape or close the input,  *)
(* a script that closes the input; the included file holds text, macros    *)
(* that change its own hooks, a close of the input, an include of a third  *)
(* file.                                                                   *)

MaxIncludePieces == 3

IncludePieces ==
  { <<97>>,                                                   \* "a"
    <<45, 60, 58, 105, 110, 99, 108, 117, 100, 101, 32, 102, 62, 45>>,  \* "-<:include f>-"
    <<45, 60, 105, 102, 83, 33, 62, 45>>,                     \* "-<ifS!>-"
    <<45, 60, 99, 62, 45>>,                                   \* "-<c>-"
    <<45, 60, 105, 102, 99, 62, 45>> }                        \* "-<ifc>-"

IncludeFiles ==
  { <<120>>,                                      \* "x"
    <<45, 60, 83, 33, 84, 122, 62, 45, 120>>,     \* "-<S!Tz>-x"
    <<120, 45, 60, 99, 62, 45, 121>>,             \* "x-<c>-y"
    <<45, 60, 105, 103, 62, 45, 121>> }           \* "-<ig>-y"

IncludeSrcs == { <<122>> }                        \* "z"

InitInclude ==
  InitWith(Inputs(IncludePieces, MaxIncludePieces), IncludeFiles, IncludeSrcs, Builds)

SpecInclude == InitInclude /\ [][Next]_vars

----------------------------------------------------------------------------
(* The parser on a main file that works on its output files: text, scripts *)
(* that push an output file, close one, write, the directives that block   *)
(* and unblock the output; the file may start with the output blocked or   *)
(* with a second output file pushed.                                       *)

MaxOutputPieces == 3

OutputPrefixes ==
  { <<>>,
    <<45, 60, 58, 98, 108, 111, 99, 107, 62, 45>>,     \* "-<:block>-"
    <<45, 60, 111, 98, 62, 45>> }                      \* "-<ob>-"

OutputPieces ==
  { <<97>>,                                                \* "a"
    <<10>>,                                                \* newline
    <<45, 60, 111, 98, 62, 45>>,                           \* "-<ob>-"
    <<45, 60, 113, 62, 45>>,                               \* "-<q>-"
    <<45, 60, 111, 98, 119, 49, 62, 45>>,                  \* "-<obw1>-"
    <<45, 60, 113, 119, 50, 62, 45>>,                      \* "-<qw2>-"
    <<45, 60, 46, 49, 62, 45>>,                            \* "-<.1>-"
    <<45, 60, 58, 98, 108, 111, 99, 107, 62, 45>>,         \* "-<:block>-"
    <<45, 60, 58, 117, 110, 98, 108, 111, 99, 107, 62, 45>> }  \* "-<:unblock>-"

\* the output does not depend on what the build does with undefined reads
OutputBuilds == {b \in Builds : ~b.ub_traps /\ b.garbage = 0}

InitOutput ==
  InitWith({p \o m : p \in OutputPrefixes, m \in Inputs(OutputPieces, MaxOutputPieces)},
           {<<>>}, {<<>>}, OutputBuilds)

SpecOutput == InitOutput /\ [][Next]_vars

----------------------------------------------------------------------------
(* The parser on files with the default hooks that hold the escape before  *)
(* a space, a newline, a hook, text, a byte above 127 or another escape.   *)

MaxEscapePieces == 4

EscapePieces ==
  { <<92>>,          \* the escape
    <<32>>,          \* " "
    <<10>>,          \* newline
    <<45, 60>>,      \* "-<"
    <<62, 45>>,      \* ">-"
    <<97>>,          \* "a"
    <<255>> }        \* the byte 0xFF

\* these files lead to no undefined read: the builds differ in the sign of char
InitEscape ==
  InitWith(Inputs(EscapePieces, MaxEscapePieces), {<<>>}, {<<>>}, OutputBuilds)

SpecEscape == InitEscape /\ [][Next]_vars

----------------------------------------------------------------------------
(* The parser on files that set the eater "xy" and then hold the escape    *)
(* before the eater, before its first byte alone, before text and hooks.   *)

MaxEaterPieces == 4

EaterPrefix == <<45, 60, 58, 101, 97, 116, 101, 114, 32, 120, 121, 62, 45>>  \* "-<:eater xy>-"

EaterPieces ==
  { <<92>>,          \* the escape
    <<120, 121>>,    \* "xy"
    <<120>>,         \* "x"
    <<97>>,          \* "a"
    <<45, 60>>,      \* "-<"
    <<62, 45>> }     \* ">-"

InitEater ==
  InitWith({EaterPrefix \o m : m \in Inputs(EaterPieces, MaxEaterPieces)},
           {<<>>}, {<<>>}, OutputBuilds)

SpecEater == InitEater /\ [][Next]_vars

----------------------------------------------------------------------------
(* The parser on files with deferred macros: the default hooks, or the two *)
(* pairs "(" ")" and "[" "]" of multi mode, around bodies of '#' and text. *)

MaxDeferPieces == 4

DeferPrefixes ==
  { <<>>,
    <<45, 60, 109, 40, 41, 109, 91, 93, 62, 45>> }     \* "-<m()m[]>-"

DeferPieces ==
  { <<45, 60>>,      \* "-<"
    <<62, 45>>,      \* ">-"
    <<35>>,          \* "#"
    <<97>>,          \* "a"
    <<40>>,          \* "("
    <<41>>,          \* ")"
    <<91>>,          \* "["
    <<93>> }         \* "]"

InitDefer ==
  InitWith({p \o m : p \in DeferPrefixes, m \in Inputs(DeferPieces, MaxDeferPieces)},
           {<<>>}, {<<>>}, OutputBuilds)

SpecDefer == InitDefer /\ [][Next]_vars

----------------------------------------------------------------------------
(* The parser on three files that set "{{" as hook-begin and then use it   *)
(* around a value macro, on every build.                                   *)

\* "-<:hookbeg {{>-" NL "Before {{.42}} After" NL
HookbegExample ==
  <<45, 60, 58, 104, 111, 111, 107, 98, 101, 103, 32, 123, 123, 62, 45, 10,
    66, 101, 102, 111, 114, 101, 32, 123, 123, 46, 52, 50, 125, 125, 32,
    65, 102, 116, 101, 114, 10>>

\* "-<:hookbeg {{>-" NL "Before {{.42>- After" NL
HookbegExampleOldEnd ==
  <<45, 60, 58, 104, 111, 111, 107, 98, 101, 103, 32, 123, 123, 62, 45, 10,
    66, 101, 102, 111, 114, 101, 32, 123, 123, 46, 52, 50, 62, 45, 32,
    65, 102, 116, 101, 114, 10>>

\* "-<:hook {{ }}>-" NL "Before {{.42}} After" NL
HookExample ==
  <<45, 60, 58, 104, 111, 111, 107, 32, 123, 123, 32, 125, 125, 62, 45, 10,
    66, 101, 102, 111, 114, 101, 32, 123, 123, 46, 52, 50, 125, 125, 32,
    65, 102, 116, 101, 114, 10>>

InitExample ==
  InitWith({HookbegExample, HookbegExampleOldEnd, HookExample}, {<<>>}, {<<>>}, Builds)

SpecExample == InitExample /\ [][Next]_vars

----------------------------------------------------------------------------
(* The parser on files that set one delimiter with a directive: text, the  *)
(* old and the new delimiters, and the three directives, with or without   *)
(* an eater set first.                                                     *)

MaxDirectivePieces == 3

DirectivePrefixes == {<<>>, EaterPrefix}

DirectivePieces ==
  { <<45, 60, 58, 104, 111, 111, 107, 98, 101, 103, 32, 40, 62, 45>>,   \* "-<:hookbeg (>-"
    <<45, 60, 58, 104, 111, 111, 107, 101, 110, 100, 32, 41, 62, 45>>,  \* "-<:hookend )>-"
    <<45, 60, 58, 104, 111, 111, 107, 101, 115, 99, 32, 33, 62, 45>>,   \* "-<:hookesc !>-"
    <<40>>,          \* "("
    <<41>>,          \* ")"
    <<33>>,          \* "!"
    <<97>>,          \* "a"
    <<45, 60>>,      \* "-<"
    <<62, 45>> }     \* ">-"

InitDirective ==
  InitWith({p \o m : p \in DirectivePrefixes,
                     m \in Inputs(DirectivePieces, MaxDirectivePieces)},
           {<<>>}, {<<>>}, OutputBuilds)

SpecDirective == InitDirective /\ [][Next]_vars

----------------------------------------------------------------------------
(* The parser on files whose directives have an empty argument: the        *)
(* separator with nothing after it, or no separator at all, on every build *)
(* (the byte after the terminator of the command is then read).            *)

MaxEmptyArgPieces == 3

EmptyArgPieces ==
  { <<45, 60, 58, 104, 111, 111, 107, 98, 101, 103, 32, 62, 45>>,   \* "-<:hookbeg >-"
    <<45, 60, 58, 104, 111, 111, 107, 101, 110, 100, 32, 62, 45>>,  \* "-<:hookend >-"
    <<45, 60, 58, 104, 111, 111, 107, 97, 108, 108, 32, 62, 45>>,   \* "-<:hookall >-"
    <<45, 60, 58, 104, 111, 111, 107, 32, 62, 45>>,                 \* "-<:hook >-"
    <<45, 60, 58, 104, 111, 111, 107, 62, 45>>,                     \* "-<:hook>-"
    <<45, 60, 46, 49, 62, 45>>,                                     \* "-<.1>-"
    <<97>> }                                                        \* "a"

InitEmptyArg ==
  InitWith(Inputs(EmptyArgPieces, MaxEmptyArgPieces), {<<>>}, {<<>>}, Builds)

SpecEmptyArg == InitEmptyArg /\ [][Next]_vars

----------------------------------------------------------------------------
(* The parser on files that add pairs to the multi vector up to its limit: *)
(* one macro of the default pair whose script adds the pair "[" "]" n      *)
(* times and then pushes the file f or not; f holds "a[.1]".               *)

MaxMultiAdds == 128

\* n copies of s in a row
Rep(s, n) == [i \in 1..(n * Len(s)) |-> s[((i - 1) % Len(s)) + 1]]

LimitTails ==
  { <<>>,
    <<105, 102>> }          \* "if"

LimitMains ==
  { <<45, 60>> \o Rep(<<109, 91, 93>>, n) \o t \o <<62, 45>> :
      n \in 0..MaxMultiAdds, t \in LimitTails }

LimitIncluded == { <<97, 91, 46, 49, 93>> }     \* "a[.1]"

InitLimit == InitWith(LimitMains, LimitIncluded, {<<>>}, OutputBuilds)

SpecLimit == InitLimit /\ [][Next]_vars

----------------------------------------------------------------------------
(* The parser on files that hold the directive ":exit", in the main file   *)
(* or in the file f it includes, between text and other macros.            *)

MaxExitPieces == 3

ExitPieces ==
  { <<45, 60, 58, 101, 120, 105, 116, 62, 45>>,                        \* "-<:exit>-"
    <<45, 60, 43, 58, 101, 120, 105, 116, 62, 45>>,                    \* "-<+:exit>-"
    <<45, 60, 58, 105, 110, 99, 108, 117, 100, 101, 32, 102, 62, 45>>, \* "-<:include f>-"
    <<45, 60, 46, 49, 62, 45>>,                                        \* "-<.1>-"
    <<45, 60>>,                                                        \* "-<"
    <<62, 45>>,                                                        \* ">-"
    <<97>> }                                                           \* "a"

ExitIncluded ==
  { <<98>>,                                              \* "b"
    <<120, 45, 60, 58, 101, 120, 105, 116, 62, 45, 121>> }  \* "x-<:exit>-y"

InitExit ==
  InitWith(Inputs(ExitPieces, MaxExitPieces), ExitIncluded, {<<>>}, Builds)

SpecExit == InitExit /\ [][Next]_vars

----------------------------------------------------------------------------
(* The parser on main files whose scripts push one or two input files in   *)
(* one macro: f holds "x", g holds "y".                                    *)

MaxTwoPushPieces == 3

TwoPushPieces ==
  { <<97>>,                                   \* "a"
    <<45, 60, 105, 102, 62, 45>>,             \* "-<if>-"
    <<45, 60, 105, 103, 62, 45>>,             \* "-<ig>-"
    <<45, 60, 105, 102, 105, 103, 62, 45>> }  \* "-<ifig>-"

InitTwoPush ==
  InitWith(Inputs(TwoPushPieces, MaxTwoPushPieces), {<<120>>}, {<<121>>}, Builds)

SpecTwoPush == InitTwoPush /\ [][Next]_vars

----------------------------------------------------------------------------
(* The parser in multi mode with the two pairs ( ) and [ ]: macros of     *)
(* either pair, nested in each other, with the hook-end of either pair.    *)

MaxNestPieces == 5

NestPrefix == <<45, 60, 109, 40, 41, 109, 91, 93, 62, 45>>     \* "-<m()m[]>-"

NestPieces ==
  { <<40, 47>>,      \* "(/"
    <<91, 47>>,      \* "[/"
    <<41>>,          \* ")"
    <<93>> }         \* "]"

InitNest ==
  InitWith({NestPrefix \o m : m \in Inputs(NestPieces, MaxNestPieces)},
           {<<>>}, {<<>>}, OutputBuilds)

SpecNest == InitNest /\ [][Next]_vars

----------------------------------------------------------------------------
(* The parser in multi mode with two pairs whose hook-begins overlap: "("  *)
(* and "((" in either order, or "(" twice; the hook-ends differ.           *)

MaxOverlapPieces == 5

OverlapPrefixes ==
  { <<45, 60, 109, 40, 41, 68, 40, 40, 93, 62, 45>>,     \* "-<m()D((]>-"
    <<45, 60, 68, 40, 40, 93, 109, 40, 41, 62, 45>>,     \* "-<D((]m()>-"
    <<45, 60, 109, 40, 41, 109, 40, 93, 62, 45>> }       \* "-<m()m(]>-"

OverlapPieces ==
  { <<40>>,          \* "("
    <<47>>,          \* "/"
    <<41>>,          \* ")"
    <<93>> }         \* "]"

InitOverlap ==
  InitWith({p \o m : p \in OverlapPrefixes, m \in Inputs(OverlapPieces, MaxOverlapPieces)},
           {<<>>}, {<<>>}, OutputBuilds)

SpecOverlap == InitOverlap /\ [][Next]_vars

----------------------------------------------------------------------------
(* The parser in single mode with the escape equal to the hook-begin: "!"  *)
(* set by a script, or "-<" set by the directive (its "-" escaped); the    *)
(* hook-end is ">-".                                                       *)

MaxEscBegPieces == 4

EscBegPrefixes ==
  { <<45, 60, 66, 33, 83, 33, 62, 45>>,                                  \* "-<B!S!>-"
    <<45, 60, 58, 104, 111, 111, 107, 101, 115, 99, 32, 92, 45, 60, 62, 45>> }
                                                             \* "-<:hookesc \-<>-"

EscBegPieces ==
  { <<33>>,          \* "!"
    <<45, 60>>,      \* "-<"
    <<62, 45>>,      \* ">-"
    <<32>>,          \* " "
    <<10>>,          \* newline
    <<47>> }         \* "/"

InitEscBeg ==
  InitWith({p \o m : p \in EscBegPrefixes, m \in Inputs(EscBegPieces, MaxEscBegPieces)},
           {<<>>}, {<<>>}, OutputBuilds)

SpecEscBeg == InitEscBeg /\ [][Next]_vars

----------------------------------------------------------------------------
(* The parser in single mode with the escape equal to the hook-end: "!"    *)
(* set by a script, or ">-" set by the directive (its ">" escaped); the    *)
(* hook-begin is "-<".                                                     *)

MaxEscEndPieces == 4

EscEndPrefixes ==
  { <<45, 60, 69, 33, 83, 33, 62, 45>>,                                  \* "-<E!S!>-"
    <<45, 60, 58, 104, 111, 111, 107, 101, 115, 99, 32, 92, 62, 45, 62, 45>> }
                                                             \* "-<:hookesc \>->-"

EscEndPieces ==
  { <<33>>,          \* "!"
    <<45, 60>>,      \* "-<"
    <<62, 45>>,      \* ">-"
    <<32>>,          \* " "
    <<10>>,          \* newline
    <<47>> }         \* "/"

InitEscEnd ==
  InitWith({p \o m : p \in EscEndPrefixes, m \in Inputs(EscEndPieces, MaxEscEndPieces)},
           {<<>>}, {<<>>}, OutputBuilds)

SpecEscEnd == InitEscEnd /\ [][Next]_vars

----------------------------------------------------------------------------
(* The parser on files that set the three-byte hook-begin "{{{" and go on  *)
(* with "{", newlines and text.                                            *)

MaxPositionPieces == 4

PositionPrefix ==
  <<45, 60, 58, 104, 111, 111, 107, 98, 101, 103, 32, 123, 123, 123, 62, 45>>
                                                             \* "-<:hookbeg {{{>-"

PositionPieces ==
  { <<123>>,         \* "{"
    <<10>>,          \* newline
    <<97>> }         \* "a"

InitPosition ==
  InitWith({PositionPrefix \o m : m \in Inputs(PositionPieces, MaxPositionPieces)},
           {<<>>}, {<<>>}, OutputBuilds)

SpecPosition == InitPosition /\ [][Next]_vars

----------------------------------------------------------------------------
(* The parser on one file, no source pushed: text, hooks and an escape,    *)
(* macros that write, that end the run and that change the hook-begin.     *)
(* The loop goes on as long as it has not ended: weak fairness of Next,    *)
(* with the enabledness of a step written as the predicate it amounts to   *)
(* (the status is "init" or "run").                                        *)

MaxTermPieces == 3

TermPieces ==
  { <<45, 60>>,                                                 \* "-<"
    <<62, 45>>,                                                 \* ">-"
    <<92>>,                                                     \* "\"
    <<97>>,                                                     \* "a"
    <<10>>,                                                     \* newline
    <<40>>,                                                     \* "("
    <<45, 60, 46, 49, 62, 45>>,                                 \* "-<.1>-"
    <<45, 60, 58, 101, 120, 105, 116, 62, 45>>,                 \* "-<:exit>-"
    <<45, 60, 58, 104, 111, 111, 107, 98, 101, 103, 32, 40, 62, 45>> }
                                                                \* "-<:hookbeg (>-"

InitTerm == InitWith(Inputs(TermPieces, MaxTermPieces), {<<>>}, {<<>>}, OutputBuilds)

SpecTerm ==
  /\ InitTerm /\ [][Next]_vars
  /\ ([]<>(status \notin {"init", "run"}) \/ []<><<Next>>_vars)

----------------------------------------------------------------------------
(* Properties *)

\* the events of the history
Events(ev) == {i \in DOMAIN log : log[i].ev = ev}

\* C1: whenever a source, the bottom one or an included one, is at its end
\* while a macro is open (in_macro > 0), processing ends with the fatal/error
\* diagnostic: a source popped at its end inside a macro never leaves the
\* parser running, collecting the macro from the source below.
C1_EndOfSourceInMacroIsFatal ==
  \A i \in Events("pop") :
    (log[i].arg.eof /\ log[i].arg.in_macro > 0) => status \in {"error", "fatal"}

\* no source has an open hook pair
CurhooksEmpty == \A i \in DOMAIN file : file[i].curhook = <<>>

\* C2: when the main loop has terminated, in_macro is 0, the curhook stack of
\* every remaining source is empty and suspension is 0; and the same holds
\* whenever the parser is outside a macro, so after every dispatch of a
\* top-level macro, nested hooks and suspension markers included.
C2_MacroBalance ==
  /\ status = "done" => in_macro = 0
  /\ (status \in {"run", "done"} /\ in_macro = 0) => (suspension = 0 /\ CurhooksEmpty)

\* a macro with a nested macro and a suspended hook-end was dispatched and
\* the loop has terminated
C2_Witness ==
  /\ status = "done"
  /\ \E i \in Events("dispatch") : \E j \in DOMAIN log[i].arg : log[i].arg[j] = 91
  /\ \E j \in DOMAIN output[1].data : output[1].data[j] = 40

\* What the spec says a macro body writes when it is dispatched: nothing for
\* an empty body or a comment, the stringified value for a '.' body (the
\* literal itself for a decimal literal, "nil" for no statement), and the
\* macro without one '#' for a '#' body.  A leading '+' is not part of the
\* command.
Written(body) ==
  LET cmd == IF body # <<>> /\ Head(body) = 43 THEN Tail(body) ELSE body
  IN IF cmd = <<>> THEN <<>>
     ELSE IF Head(cmd) = 46
     THEN IF Tail(cmd) = <<>> THEN KW_nil ELSE Tail(cmd)
     ELSE IF Head(cmd) = 35
     THEN HOOKBEG_DEFAULT \o Tail(cmd) \o HOOKEND_DEFAULT
     ELSE <<>>

\* The output for input s with no escape and the default hooks, read off the
\* input: depth is the nesting of macros at the start of s, body the bytes
\* collected so far.  Bytes outside a macro are copied; a top-level macro is
\* replaced by Written(body).  With asCode, the delimiters of the macros
\* nested in a macro are copied as they are met and the byte that follows a
\* macro with a leading '+' is dropped; without, neither.
RECURSIVE Replaced(_, _, _, _)
Replaced(s, depth, body, asCode) ==
  IF s = <<>> THEN <<>>
  ELSE IF depth = 0
  THEN IF IsPrefix(HOOKBEG_DEFAULT, s)
       THEN Replaced(StrFrom(s, 2), 1, <<>>, asCode)
       ELSE <<Head(s)>> \o Replaced(Tail(s), 0, <<>>, asCode)
  ELSE IF IsPrefix(HOOKEND_DEFAULT, s)
  THEN IF depth = 1
       THEN LET eat == asCode /\ body # <<>> /\ Head(body) = 43
            IN Written(body)
                 \o Replaced(StrFrom(s, IF eat THEN 3 ELSE 2), 0, <<>>, asCode)
       ELSE (IF asCode THEN HOOKEND_DEFAULT ELSE <<>>)
              \o Replaced(StrFrom(s, 2), depth - 1, body, asCode)
  ELSE IF IsPrefix(HOOKBEG_DEFAULT, s)
  THEN (IF asCode THEN HOOKBEG_DEFAULT ELSE <<>>)
         \o Replaced(StrFrom(s, 2), depth + 1, body, asCode)
  ELSE Replaced(Tail(s), depth, Append(body, Head(s)), asCode)

\* the main file has no escape string and only bytes 1..127; every macro
\* dispatched was empty, a comment, a '#' macro or a '.' macro whose script
\* is a literal or nothing, so that no dispatch did more than write
PlainInput ==
  /\ \A j \in DOMAIN disk[MainName] :
        /\ disk[MainName][j] \in 1..127
        /\ ~IsPrefix(HOOKESC_DEFAULT, StrFrom(disk[MainName], j - 1))
  /\ \A i \in Events("dispatch") :
        \/ log[i].arg = <<>>
        \/ Head(log[i].arg) \in {47, 35}
        \/ Head(log[i].arg) = 46 /\ Digits(Tail(log[i].arg)) = Tail(log[i].arg)

PositionRoundTrip(sf) ==
  LET r == sf_get(sf)
      back == sf_put(r.sf, r.ret)
  IN r.ret # EOF => (back.lineno = sf.lineno /\ back.column = sf.column)

\* C4 as stated: in every reachable state of every input source, eat_tail
\* set or not, push-back buffer empty or not, a get that returns a byte
\* followed by put_back of that byte leaves (lineno, column) as before the get.
C4_PositionRoundTripAlways == \A i \in DOMAIN file : PositionRoundTrip(file[i])

\* C4 as amended: the same in every reachable state of a source whose
\* eat_tail is clear (with eat_tail set the get passes two bytes and the
\* put_back takes back one).
C4_PositionRoundTripUnlessEating ==
  \A i \in DOMAIN file : ~file[i].eat_tail => PositionRoundTrip(file[i])

\* a source past its first line whose next byte is a pushed-back newline
C4_Witness ==
  \E i \in DOMAIN file :
    /\ ~file[i].eat_tail
    /\ file[i].buf # <<>>
    /\ file[i].lineno > 0
    /\ sf_get(file[i]).ret = NL

\* the strings put back: at most MaxPutBack bytes of 1..127
MaxPutBack == 2
PutBackBytes == {10, 45, 127}

\* put_back_n(s) then get_n(|s|) on the top source gives s and the buffer as before
PutBackOrder(s) ==
  LET put == fs_put_n(State, s, Len(s))
      got == fs_get_n(put, Len(s), <<>>)
  IN /\ got.ret = s
     /\ ps_topfile(got.P).buf = ps_topfile(State).buf

\* C5 as stated: in every state the running parser reaches with a top source,
\* and for every string s of bytes 1..127, put_back_n(s) followed by
\* get_n(|s|) returns exactly s and leaves the push-back buffer as it was.
C5_PutBackOrderAlways ==
  (status = "run" /\ ps_has_file(State))
    => \A s \in SeqsUpTo(PutBackBytes, MaxPutBack) : PutBackOrder(s)

\* C5 as amended: the same in every such state in which eat_tail of the top
\* source is clear (with eat_tail set get_n drops the first byte of s).
C5_PutBackOrderUnlessEating ==
  (status = "run" /\ ps_has_file(State) /\ ~ps_topfile(State).eat_tail)
    => \A s \in SeqsUpTo(PutBackBytes, MaxPutBack) : PutBackOrder(s)

\* the parser is running on a top source that holds pushed-back bytes
C5_Witness ==
  /\ status = "run"
  /\ ps_has_file(State)
  /\ ~ps_topfile(State).eat_tail
  /\ Len(ps_topfile(State).buf) >= 1
  /\ in_macro > 0

\* C6: a byte pushed back onto a source is returned by the next get with its
\* value in 0..255, whatever the value: never as end-of-source, never as a
\* negative number.
C6_PushedBackByteComesBack ==
  \A i \in DOMAIN file :
    (file[i].buf # <<>> /\ ~file[i].eat_tail) => sf_get(file[i]).ret = Last(file[i].buf)

----------------------------------------------------------------------------
(* The configuration of an input source.                                   *)

\* sf->multi is non-NULL: the source is handled as one in multi mode
InMultiMode(sf) == sf.multi_ptr # "NULL"

\* the strings whose first byte the parser has to notice on source sf
HookStrings(sf) ==
  {sf.hookesc}
    \cup (IF InMultiMode(sf)
          THEN UNION {{sf.multi[k].beg, sf.multi[k].end} : k \in DOMAIN sf.multi}
               \cup {sf.multi[k].susp : k \in {j \in DOMAIN sf.multi : sf.multi[j].susp # NULL}}
          ELSE {sf.hook.beg, sf.hook.end})

(* C7: on every source the first-byte bitmap has an entry for the first    *)
(* byte of the escape, of every beg, end and suspension marker of the      *)
(* multi vector in multi mode, and of the single beg and end in single     *)
(* mode, whatever sequence of set_hook, add_multi and pushes came before.  *)
C7_BitmapComplete ==
  status = "run" =>
    \A i \in DOMAIN file :
      \A h \in HookStrings(file[i]) : Str0(h) \in file[i].hook_1st_chars

\* what a source in single mode with the hooks and escape of sf looks like
SingleMode(sf) ==
  /\ sf.multi_ptr = "NULL"
  /\ sf.multi = <<>>
  /\ sf.hook_esc_eq_beg = StrEq(sf.hookesc, sf.hook.beg)
  /\ sf.hook_esc_eq_end = StrEq(sf.hookesc, sf.hook.end)
  /\ sf.hook_1st_chars = {Str0(sf.hook.beg), Str0(sf.hook.end), Str0(sf.hookesc)}

(* C8: after set_hook of beg or end on a source in multi mode the source   *)
(* is in single mode: the vector is empty and not consulted any more, the  *)
(* two escape flags equal the string equalities and the bitmap holds       *)
(* exactly the first bytes of beg, end and the escape.                     *)
C8_SetHookLeavesMultiMode ==
  \A i \in Events("set_hook") :
    (log[i].arg.hook \in {"beg", "end"} /\ log[i].arg.before.multi # <<>>)
      => SingleMode(log[i].arg.after)

(* C9: on a source in multi mode the escape differs from the beg and the   *)
(* end of every entry of the vector, as long as the parser runs.           *)
C9_EscDiffersFromMultiHooks ==
  status = "run" =>
    \A i \in DOMAIN file :
      \A k \in DOMAIN file[i].multi :
        /\ ~StrEq(file[i].hookesc, file[i].multi[k].beg)
        /\ ~StrEq(file[i].hookesc, file[i].multi[k].end)

\* the pushes of a source on top of another one
InheritingPushes == {i \in Events("push") : log[i].arg.inherit # <<>>}

----------------------------------------------------------------------------
(* Included sources *)

\* the configuration of a source
Config(sf) ==
  [beg |-> sf.hook.beg, end |-> sf.hook.end, esc |-> sf.hookesc,
   eater |-> sf.eater, multi |-> sf.multi]

\* the events the step adds to the history
NewEvents(ev) == {i \in (Len(log) + 1)..Len(log') : log'[i].ev = ev}

\* the k-th source of the stack counted from the bottom
FromBottom(files, k) == files[Len(files) - k + 1]

\* C11: what is done while a source is on top of the input stack leaves the
\* configuration (beg, end, esc, eater, multi vector) of every source below
\* it as it was: a step that pops no source changes no source below the one
\* that was on top, and a step that pops sources and dispatches no macro
\* changes no source that stays, so that the includer resumes with the
\* configuration it had.
C11_SourcesBelowKeepConfig ==
  [][/\ (cur # 0 /\ NewEvents("pop") = {}) =>
          \A k \in 1..(Len(file) - cur) :
             /\ k <= Len(file')
             /\ Config(FromBottom(file', k)) = Config(FromBottom(file, k))
     /\ (NewEvents("pop") # {} /\ NewEvents("dispatch") = {}) =>
          \A k \in 1..Len(file') :
             Config(FromBottom(file', k)) = Config(FromBottom(file, k))]_vars

\* the included file changed its escape and its eater, it is popped and the
\* main file is on top again with the escape and the eater it had
C11_Witness ==
  /\ cur # 0 /\ file[cur].filename = MainName
  /\ \E i \in Events("set_hook"), j \in Events("pop") :
        /\ i < j
        /\ log[i].arg.before.filename = IncName
        /\ log[i].arg.after.hookesc # HOOKESC_DEFAULT
        /\ log[j].arg.filename = IncName
  /\ file[cur].hookesc = HOOKESC_DEFAULT
  /\ file[cur].eater = NULL


\* what a source still holds: its push-back buffer, last byte first, then
\* the rest of its file
Upcoming(sf) == [i \in 1..Len(sf.buf) |-> sf.buf[Len(sf.buf) - i + 1]] \o sf.fh

\* the macros that push an input, with the file they push
IncludeMacros ==
  { [text |-> <<45, 60, 58, 105, 110, 99, 108, 117, 100, 101, 32, 102, 62, 45>>,
     name |-> IncName],                                      \* "-<:include f>-"
    [text |-> <<45, 60, 105, 102, 83, 33, 62, 45>>, name |-> IncName],  \* "-<ifS!>-"
    [text |-> <<45, 60, 105, 103, 62, 45>>, name |-> SrcName] }         \* "-<ig>-"

\* the text with each including macro replaced by the expansion of its file
RECURSIVE Expand(_)
Expand(s) ==
  IF s = <<>> THEN <<>>
  ELSE LET ms == {x \in IncludeMacros : IsPrefix(x.text, s)}
       IN IF ms = {} THEN <<Head(s)>> \o Expand(Tail(s))
          ELSE LET x == CHOOSE y \in ms : TRUE
               IN Expand(disk[x.name]) \o Expand(StrFrom(s, Len(x.text)))

\* no script of the run closed an input or set a hook of an included file
OnlyIncludes ==
  /\ Events("close_input") = {}
  /\ \A i \in Events("set_hook") : log[i].arg.before.filename = MainName

\* a callback that follows a push in the same script acts on the includer
TopStaysDuringDispatch ==
  \A i \in Events("push") :
     (i < Len(log) /\ log[i].arg.inherit # <<>> /\ log[i + 1].ev = "set_hook")
        => log[i + 1].arg.before.filename = log[i].arg.inherit[1].filename

\* C12: when a macro pushes exactly one input (the :include directive or
\* push_input), the includer stays on top while the script runs; after the
\* step that holds the hook-end the new source is on top, nothing of it
\* read, with the includer right below it at the byte after the hook-end;
\* while a source is on top no byte of a source below it is consumed; and
\* the output of a finished run is the text of the main file with each
\* including macro replaced by the text of its file, so that all of the
\* included file comes before what follows the macro.
C12_IncludedSourceRunsFirst ==
  [][/\ TopStaysDuringDispatch'
     /\ (Cardinality(NewEvents("push")) = 1 /\ NewEvents("close_input") = {}
           /\ status = "run" /\ status' = "run")
        => LET e == log'[CHOOSE i \in NewEvents("push") : TRUE].arg
           IN /\ cur' # 0 /\ cur' < Len(file')
              /\ file'[cur'] = e.sf
              /\ e.sf.fh = disk[e.filename] /\ e.sf.buf = <<>>
              /\ file'[cur' + 1].filename = file[cur].filename
              /\ Len(file') = Len(file) + 1
              /\ Upcoming(file'[cur' + 1])
                   = StrFrom(Upcoming(file[cur]), Len(file[cur].hook.end))
     /\ (cur # 0 /\ NewEvents("pop") = {}) =>
          \A k \in 1..(Len(file) - cur) :
             Upcoming(FromBottom(file', k)) = Upcoming(FromBottom(file, k))
     /\ (status' = "done" /\ OnlyIncludes')
        => output'[1].data = Expand(disk[MainName])]_vars

\* a finished run whose main file holds text after an including macro: the
\* included file was read to its end and the output is the expansion
C12_Witness ==
  /\ status = "done" /\ OnlyIncludes
  /\ \E i \in Events("push"), j \in Events("pop") :
        /\ i < j
        /\ log[i].arg.filename = IncName /\ log[j].arg.filename = IncName
        /\ log[j].arg.eof
  /\ \E i \in Events("set_hook") : log[i - 1].ev = "push"
  /\ Last(disk[MainName]) = 97
  /\ output[1].data = Expand(disk[MainName])
  /\ output[1].data # disk[MainName]


\* C13: after the step of a macro whose script called close_input, the
\* source that is popped is the one that held the macro (the top one at the
\* call), also when the same script pushed an input.
C13_CloseInputPopsTheSourceOfTheMacro ==
  \A i \in Events("close_input") :
     status \in {"run", "done"} =>
        /\ \E j \in Events("pop") : j > i
        /\ LET j == CHOOSE k \in Events("pop") :
                       k > i /\ \A l \in Events("pop") : l > i => k <= l
           IN log[j].arg.filename = log[i].arg


\* the cells from the top one down whose source still holds a byte
Live == {k \in cur..Len(file) : Upcoming(file[k]) # <<>>}

\* C14: on a non-empty stack whose sources are not eating the tail of a
\* macro, get_one returns end-of-source only when every source is exhausted,
\* and the stack is then empty; otherwise it returns the next byte of the
\* first source from the top that is not exhausted, pops exactly the
\* exhausted sources above it and leaves the sources below it as they were.
C14_GetOneSkipsExhaustedSources ==
  (status = "run" /\ cur # 0 /\ \A k \in cur..Len(file) : ~file[k].eat_tail) =>
     LET r == fs_get_one(State)
     IN IF Live = {}
        THEN r.ret = EOF /\ r.P.cur = 0
        ELSE LET k == CHOOSE l \in Live : \A o \in Live : l <= o
             IN /\ r.ret = Upcoming(file[k])[1]
                /\ Len(r.P.file) = Len(file) - (k - cur)
                /\ r.P.cur = cur
                /\ r.P.file[r.P.cur].filename = file[k].filename
                /\ \A j \in (k + 1)..Len(file) : r.P.file[j - (k - cur)] = file[j]


----------------------------------------------------------------------------
(* Output files *)

\* C15: what is written while an output file is on top of the output stack
\* goes to that file only: a step in which no output file is pushed leaves
\* every file below the one on top at its end unchanged in content and line
\* counter; a step in which no file is closed leaves every file below the
\* one on top at its start unchanged, and the files below the last one it
\* pushed are as they were at the push.
C15_SinksBelowUntouched ==
  [][/\ NewEvents("push_output") = {} =>
          \A k \in 1..(Len(output') - 1) :
             FromBottom(output', k) = FromBottom(output, k)
     /\ NewEvents("close_output") = {} =>
          /\ \A k \in 1..(Len(output) - 1) :
                FromBottom(output', k) = FromBottom(output, k)
          /\ NewEvents("push_output") # {} =>
                LET i == CHOOSE j \in NewEvents("push_output") :
                            \A l \in NewEvents("push_output") : l <= j
                IN Tail(output') = log'[i].arg.below]_vars

\* two output files, both written: the one below holds what was written
\* before the push, the one on top what was written after it
C15_Witness ==
  /\ Len(output) = 2
  /\ output[1].filename = <<98>>
  /\ output[1].data # <<>>
  /\ output[2].data # <<>>
  /\ Events("dispatch") # {}


KW_block_macro == HOOKBEG_DEFAULT \o KW_block \o HOOKEND_DEFAULT        \* "-<:block>-"
KW_unblock_macro == HOOKBEG_DEFAULT \o KW_unblock \o HOOKEND_DEFAULT    \* "-<:unblock>-"
WriteOneMacro == HOOKBEG_DEFAULT \o <<46, 49>> \o HOOKEND_DEFAULT       \* "-<.1>-"

\* what a text made of bytes, "-<.1>-" and the two directives leaves in the
\* output file: the bytes and values outside the blocked spans
RECURSIVE Visible(_, _)
Visible(s, blocked) ==
  IF s = <<>> THEN <<>>
  ELSE IF IsPrefix(KW_block_macro, s)
  THEN Visible(StrFrom(s, Len(KW_block_macro)), TRUE)
  ELSE IF IsPrefix(KW_unblock_macro, s)
  THEN Visible(StrFrom(s, Len(KW_unblock_macro)), FALSE)
  ELSE IF IsPrefix(WriteOneMacro, s)
  THEN (IF blocked THEN <<>> ELSE <<49>>) \o Visible(StrFrom(s, Len(WriteOneMacro)), blocked)
  ELSE (IF blocked THEN <<>> ELSE <<Head(s)>>) \o Visible(Tail(s), blocked)

\* the number of hook-begins in a text
RECURSIVE Macros(_)
Macros(s) ==
  IF s = <<>> THEN 0
  ELSE (IF IsPrefix(HOOKBEG_DEFAULT, s) THEN 1 ELSE 0) + Macros(Tail(s))

\* C16: while the output file on top is blocked, a step that neither
\* unblocks it nor pushes or closes an output file appends no byte to any
\* output file and changes no line counter; the macros of a blocked span
\* are dispatched all the same (a finished run has dispatched every macro
\* of the main file); and with one output file the output of a finished run
\* is what the main file writes outside its blocked spans, so that
\* -<:block>-HIDDEN-<:unblock>-SHOWN gives SHOWN.
C16_BlockedOutputDropsWrites ==
  [][/\ (output # <<>> /\ output[1].blocked
         /\ NewEvents("unblock") = {} /\ NewEvents("push_output") = {}
         /\ NewEvents("close_output") = {})
        => output' = output
     /\ status' = "done" =>
          /\ Cardinality({i \in DOMAIN log' : log'[i].ev = "dispatch"})
               = Macros(disk[MainName])
          /\ (\A i \in DOMAIN log' : log'[i].ev \notin {"push_output", "close_output"})
               => output'[1].data = Visible(disk[MainName], FALSE)]_vars

\* a finished run that blocked the output, dispatched "-<.1>-" in the
\* blocked span, unblocked and wrote "a": only the "a" is in the output
C16_Witness ==
  /\ status = "done"
  /\ Len(output) = 1
  /\ output[1].data = <<97>>
  /\ \E i \in Events("block"), j \in Events("dispatch"), k \in Events("unblock") :
        i < j /\ j < k /\ log[j].arg = <<46, 49>>


----------------------------------------------------------------------------
(* Suspension, nesting and the escape *)

\* The body of a macro of the pair "(" ")" with the suspension marker "[",
\* read from the text s that follows its first bytes: n is the number of
\* markers not yet used up, body what is collected so far.  Each marker is
\* collected and counted, a hook-end is collected and uses up a marker, the
\* hook-end met with no marker left closes the macro; nested is set when a
\* hook-begin is met first.
RECURSIVE SuspBody(_, _, _)
SuspBody(s, n, body) ==
  IF s = <<>> THEN [closed |-> FALSE, nested |-> FALSE, body |-> body]
  ELSE IF Head(s) = 40 THEN [closed |-> FALSE, nested |-> TRUE, body |-> body]
  ELSE IF Head(s) = 91 THEN SuspBody(Tail(s), n + 1, Append(body, 91))
  ELSE IF Head(s) = 41
  THEN IF n > 0 THEN SuspBody(Tail(s), n - 1, Append(body, 41))
       ELSE [closed |-> TRUE, nested |-> FALSE, body |-> body]
  ELSE SuspBody(Tail(s), n, Append(body, Head(s)))

\* the macro that the main file opens after it has set the pair
FirstBody ==
  SuspBody(StrFrom(disk[MainName], Len(MultiPrefix)), 0, <<Last(MultiPrefix)>>)

\* the dispatches after the one that set the pair
LaterDispatches == {i \in Events("dispatch") : \E j \in Events("dispatch") : j < i}

\* C17: in multi mode, in a macro of a pair with a suspension marker and no
\* nested hook-begin, after n markers the next n hook-ends of the pair are
\* appended to the body and do not close the macro, the hook-end after them
\* closes it, and the markers are appended to the body too: the body that is
\* dispatched is the text up to that hook-end, and a macro that is closed in
\* this way is dispatched.
C17_SuspendedHookEndsAreCollected ==
  ~FirstBody.nested =>
     /\ LaterDispatches # {} =>
          /\ FirstBody.closed
          /\ log[CHOOSE i \in LaterDispatches : \A j \in LaterDispatches : i <= j].arg
               = FirstBody.body
     /\ (status = "done" /\ FirstBody.closed) => LaterDispatches # {}

\* a dispatched body that holds two markers and the two hook-ends they
\* suspended
C17_Witness ==
  /\ ~FirstBody.nested
  /\ status = "done"
  /\ \E i \in LaterDispatches :
        /\ log[i].arg = FirstBody.body
        /\ Cardinality({j \in DOMAIN log[i].arg : log[i].arg[j] = 91}) = 2
        /\ Cardinality({j \in DOMAIN log[i].arg : log[i].arg[j] = 41}) = 2


\* C18: a hook-begin met inside a macro (in_macro = d >= 1) makes in_macro
\* d + 1 and is written to the output, not to the body; the hook-end of its
\* pair met at depth d + 1 brings in_macro back to d and is written to the
\* output, not to the body; any other step inside the macro writes nothing and only
\* appends to the one body; and the body (without a leading '+') is
\* dispatched exactly once, in the step that takes in_macro from 1 to 0.
C18_NestedHooksGoToTheOutput ==
  [][(status = "run" /\ status' \in {"run", "done"} /\ cur # 0) =>
       /\ (in_macro >= 1 /\ in_macro' = in_macro + 1) =>
            /\ output'[1].data = output[1].data \o Head(file'[cur'].curhook).beg
            /\ macro_buf' = macro_buf
       /\ (in_macro >= 2 /\ in_macro' = in_macro - 1) =>
            /\ output'[1].data = output[1].data \o Head(file[cur].curhook).end
            /\ macro_buf' = macro_buf
       /\ (in_macro >= 1 /\ in_macro' = in_macro) =>
            /\ output' = output
            /\ IsPrefix(macro_buf, macro_buf')
       /\ in_macro' \in {in_macro - 1, in_macro, in_macro + 1}
       /\ (NewEvents("dispatch") # {}) <=> (in_macro = 1 /\ in_macro' = 0)
       /\ (in_macro = 1 /\ in_macro' = 0) =>
            /\ Cardinality(NewEvents("dispatch")) = 1
            /\ \A i \in NewEvents("dispatch") : log'[i].arg = ps_get_macro(State).ret]_vars

\* a macro with a nested pair of hooks was dispatched, once, and the nested
\* hooks are in the output
C18_Witness ==
  /\ status \in {"run", "done"}
  /\ in_macro = 0
  /\ Cardinality(Events("dispatch")) = 1
  /\ Len(output) = 1
  /\ output[1].data = HOOKBEG_DEFAULT \o HOOKEND_DEFAULT


\* the top source has the escape next, no eater and no tail to eat, and a
\* byte follows the escape in it
EscapeNext ==
  /\ status = "run" /\ cur # 0
  /\ file[cur].eater = NULL /\ ~file[cur].eat_tail
  /\ IsPrefix(file[cur].hookesc, Upcoming(file[cur]))
  /\ Len(Upcoming(file[cur])) > Len(file[cur].hookesc)

\* the byte after the escape
Escaped == Upcoming(file[cur])[Len(file[cur].hookesc) + 1]

\* the step consumes the escape and the byte after it, from the top source
\* which stays the top source, and opens or closes nothing
EscapeConsumed ==
  /\ status' = "run" /\ cur' = cur /\ Len(file') = Len(file)
  /\ Upcoming(file'[cur]) = StrFrom(Upcoming(file[cur]), Len(file[cur].hookesc) + 1)
  /\ in_macro' = in_macro /\ suspension' = suspension
  /\ file'[cur].curhook = file[cur].curhook
  /\ NewEvents("dispatch") = {}

\* C19: outside a macro, in single mode with an escape that differs from the
\* hook-begin and no eater, the escape followed by a space or a newline
\* writes nothing for either of them, and the escape followed by any other
\* byte writes exactly that byte, which takes no part in the matching of
\* delimiters: the parser goes on after it, still outside a macro.
C19_EscapeOutsideMacro ==
  [][(EscapeNext /\ in_macro = 0 /\ file[cur].multi_ptr = "NULL"
        /\ file[cur].hookesc # file[cur].hook.beg) =>
       /\ EscapeConsumed
       /\ macro_buf' = macro_buf
       /\ Len(output') = Len(output)
       /\ output'[1] = IF Escaped \in {SP, NL} THEN output[1]
                       ELSE [output[1] EXCEPT !.data = Append(@, Escaped)]]_vars

\* the escape before a hook-begin: the run is over, no macro was opened or
\* dispatched and the bytes of the hook-begin are in the output
C19_Witness ==
  /\ status = "done"
  /\ disk[MainName] = <<92>> \o HOOKBEG_DEFAULT \o <<92, 32>>
  /\ Events("dispatch") = {}
  /\ Len(output) = 1
  /\ output[1].data = HOOKBEG_DEFAULT

\* C20: inside a macro, with an escape that differs from the hook-end and
\* no eater, the escape followed by a byte appends exactly that byte to the
\* body, writes nothing and leaves in_macro and suspension as they are; the
\* byte takes no part in the matching of delimiters, so that the escape
\* before a hook-end keeps the macro open.
C20_EscapeInsideMacro ==
  [][(EscapeNext /\ in_macro >= 1 /\ ~file[cur].hook_esc_eq_end
        /\ file[cur].hookesc # Head(file[cur].curhook).end) =>
       /\ EscapeConsumed
       /\ macro_buf' = Append(macro_buf, Escaped)
       /\ output' = output]_vars

\* the escape before a hook-end inside a macro: the first byte of the
\* hook-end is in the body and the macro is still open
C20_Witness ==
  /\ status = "run"
  /\ in_macro = 1
  /\ disk[MainName] = HOOKBEG_DEFAULT \o <<97, 92>> \o HOOKEND_DEFAULT
  /\ macro_buf = <<97, 62, 45>>


----------------------------------------------------------------------------
(* The eater, the '+' prefix, deferred macros *)

\* the top source has an eater and holds the escape, then the whole eater,
\* then at least one more byte
EscapedEaterNext ==
  /\ status = "run" /\ cur # 0
  /\ file[cur].eater # NULL /\ ~file[cur].eat_tail
  /\ IsPrefix(file[cur].hookesc \o file[cur].eater, Upcoming(file[cur]))
  /\ Len(Upcoming(file[cur])) > Len(file[cur].hookesc) + Len(file[cur].eater)

\* C21: with an eater set, the escape followed by the whole eater is
\* consumed with nothing written and, inside a macro, nothing appended to
\* the body; the byte after the eater is not consumed: it is the next byte
\* of the source after the step.
C21_ByteAfterEaterIsKept ==
  [][EscapedEaterNext =>
       /\ status' = "run" /\ cur' = cur
       /\ output' = output /\ macro_buf' = macro_buf /\ in_macro' = in_macro
       /\ Upcoming(file'[cur])
            = StrFrom(Upcoming(file[cur]),
                      Len(file[cur].hookesc) + Len(file[cur].eater))]_vars


\* the source without its next byte and with eat_tail clear
Eaten(sf) ==
  [sf EXCEPT !.eat_tail = FALSE,
             !.buf = IF sf.buf # <<>> THEN Front(sf.buf) ELSE <<>>,
             !.fh = IF sf.buf = <<>> /\ sf.fh # <<>> THEN Tail(sf.fh) ELSE sf.fh]

\* what an iteration leaves, the line and column counters of the sources
\* aside
Outcome(P) ==
  [output |-> P.output, in_macro |-> P.in_macro, macro_buf |-> P.macro_buf,
   suspension |-> P.suspension, status |-> P.status, cur |-> P.cur,
   rest |-> [i \in DOMAIN P.file |-> Upcoming(P.file[i])],
   curhook |-> [i \in DOMAIN P.file |-> P.file[i].curhook],
   eat_tail |-> [i \in DOMAIN P.file |-> P.file[i].eat_tail],
   dispatched |-> [i \in {j \in DOMAIN P.log : P.log[j].ev = "dispatch"} |-> P.log[i].arg]]

\* C22: the dispatch of a macro whose body starts with '+' runs the body
\* without the '+', sets eat_tail on the source and consumes nothing after
\* the hook-end; the iteration that follows does what it would do on the
\* source with its next byte taken out: exactly one byte is discarded,
\* neither written nor probed, and the bytes after it are processed as
\* usual; with nothing left in the source nothing is discarded, and
\* eat_tail is clear afterwards in both cases.
C22_PlusEatsOneByte ==
  [][/\ (status = "run" /\ status' = "run" /\ in_macro = 1 /\ in_macro' = 0
          /\ cur # 0 /\ cur' = cur /\ Len(file') = Len(file)
          /\ macro_buf # <<>> /\ Head(macro_buf) = 43)
        => /\ file'[cur].eat_tail
           /\ \A i \in NewEvents("dispatch") : log'[i].arg = CStr(Tail(macro_buf))
           /\ \E n \in 1..Len(Upcoming(file[cur])) :
                 Upcoming(file'[cur]) = StrFrom(Upcoming(file[cur]), n)
                 /\ SubSeq(Upcoming(file[cur]), 1, n) \in
                       {Head(file[cur].curhook).end, file[cur].hookesc \o <<SP>>,
                        file[cur].hookesc \o <<NL>>}
     /\ (status = "run" /\ cur # 0 /\ file[cur].eat_tail)
        => /\ Outcome(ps_process_char(State))
                = Outcome(ps_process_char([State EXCEPT !.file[cur] = Eaten(file[cur])]))
           /\ (status' = "run" /\ cur' = cur /\ Len(file') = Len(file))
                 => ~file'[cur].eat_tail \/ NewEvents("dispatch") # {}]_vars

\* a macro with the body '+' was dispatched and the source goes on with a
\* hook-begin, whose first byte is the one to be discarded
C22_Witness ==
  /\ status = "run" /\ cur # 0
  /\ file[cur].eat_tail
  /\ IsPrefix(HOOKBEG_DEFAULT, Upcoming(file[cur]))
  /\ \E i \in Events("dispatch") : log[i].arg = <<>>


\* C23: the dispatch of a macro whose effective body is '#' followed by r
\* writes the hook-begin of the pair that opened the macro, then r, then the
\* hook-end of that pair, and does nothing else: the script host is not
\* called (r is not run), so a body of k '#' comes out as a macro of k - 1.
C23_DeferredMacroIsWrittenBack ==
  [][(status = "run" /\ in_macro = 1 /\ in_macro' = 0 /\ cur # 0
        /\ file[cur].curhook # <<>>
        /\ ps_get_macro(State).ret # <<>> /\ Head(ps_get_macro(State).ret) = 35) =>
       LET cmd == ps_get_macro(State).ret
           pair == Head(file[cur].curhook)
       IN /\ status' = "run"
          /\ Len(output') = Len(output)
          /\ output'[1].data = output[1].data \o pair.beg \o StrFrom(cmd, 1) \o pair.end
          /\ log' = Append(log, [ev |-> "dispatch", arg |-> cmd])
          /\ cur' = cur
          /\ Config(file'[cur]) = Config(file[cur])]_vars

\* in multi mode the macro (#a) of the first pair and the macro [##] of the
\* second one were written back with their own hooks and one '#' less
C23_Witness ==
  /\ status \in {"run", "done"}
  /\ Len(output) = 1
  /\ output[1].data = <<40, 97, 41>> \/ output[1].data = <<91, 35, 93>>
  /\ Cardinality(Events("dispatch")) = 2
  /\ cur # 0 => Len(file[cur].multi) = 2

\* the process has left the main loop
Over == status \notin {"init", "run"}

\* C24: with the default delimiters in force, the file made of the line
\* "-<:hookbeg {{>-" and the line "Before {{.42}} After" is processed to a
\* clean end and the output is exactly "Before 42 After" and a newline.
C24_HookbegExampleOutput ==
  (disk[MainName] = HookbegExample /\ Over)
    => /\ status = "done"
       /\ output[1].data = <<66, 101, 102, 111, 114, 101, 32, 52, 50, 32,
                             65, 102, 116, 101, 114, 10>>

\* C24 as amended: on that file the run ends in the error of an end of file
\* within a macro, after the newline that follows the directive and
\* "Before " were written: ":hookbeg" leaves the hook-end ">-", so the
\* macro that "{{" opens collects ".42}} After" and the newline and is never
\* closed.  With "{{.42>-" in the second line, or with ":hook {{ }}" in the
\* first, the run ends cleanly and the output is a newline, "Before 42
\* After" and a newline.
C24_HookbegLeavesHookEnd ==
  /\ (disk[MainName] = HookbegExample /\ Over)
       => /\ status = "error"
          /\ in_macro = 1
          /\ macro_buf = <<46, 52, 50, 125, 125, 32, 65, 102, 116, 101, 114, 10>>
          /\ output[1].data = <<10, 66, 101, 102, 111, 114, 101, 32>>
  /\ (disk[MainName] \in {HookbegExampleOldEnd, HookExample} /\ Over)
       => /\ status = "done"
          /\ output[1].data = <<10, 66, 101, 102, 111, 114, 101, 32, 52, 50, 32,
                                65, 102, 116, 101, 114, 10>>

\* the run on the file of the claim is over, with ":hookbeg {{" dispatched
\* and the hook-begin of the source set to "{{"
C24_Witness ==
  /\ disk[MainName] = HookbegExample
  /\ Over
  /\ \E i \in Events("dispatch"), j \in Events("set_hook") :
        /\ i < j
        /\ log[i].arg = <<58, 104, 111, 111, 107, 98, 101, 103, 32, 123, 123>>
        /\ log[j].arg.hook = "beg"
        /\ log[j].arg.after.hook = [beg |-> <<123, 123>>, end |-> <<62, 45>>, susp |-> NULL]

\* the delimiter a one-delimiter directive sets, "none" for another command
DirectiveHook(cmd) ==
  IF IsPrefix(KW_hookbeg, cmd) THEN "beg"
  ELSE IF IsPrefix(KW_hookend, cmd) THEN "end"
  ELSE IF IsPrefix(KW_hookesc, cmd) THEN "esc"
  ELSE "none"

\* the configuration c with the delimiter h set to v
ConfigWith(c, h, v) ==
  CASE h = "beg" -> [c EXCEPT !.beg = v]
    [] h = "end" -> [c EXCEPT !.end = v]
    [] h = "esc" -> [c EXCEPT !.esc = v]

\* the state is the one a directive left: the last call made was
\* sf_set_hook of h with a value that is not empty
JustSet(h) ==
  /\ status = "run" /\ cur # 0 /\ in_macro = 0
  /\ log # <<>> /\ log[Len(log)].ev = "set_hook" /\ log[Len(log)].arg.hook = h
  /\ log[Len(log)].arg.value # <<>>
  /\ file[cur].multi_ptr = "NULL" /\ ~file[cur].eat_tail

\* C25: in single mode the dispatch of ":hookbeg VAL", ":hookend VAL" or
\* ":hookesc VAL" makes one call of sf_set_hook and changes exactly that
\* delimiter of the top source to VAL: the other two, the eater and the
\* multi vector keep their values.  The step consumes the hook-end that was
\* in force when the macro was opened, also when the directive sets another
\* hook-end.  From the next byte on the new value is used: a new hook-begin
\* that comes next opens a macro, a new escape that comes next takes the
\* byte after it out of the matching, and a macro opened next is closed by
\* the new hook-end.
C25_DirectiveSetsOneDelimiter ==
  [][/\ \A d \in NewEvents("dispatch") :
          (/\ status = "run" /\ status' = "run" /\ cur # 0
           /\ file[cur].multi_ptr = "NULL"
           /\ DirectiveHook(log'[d].arg) # "none"
           /\ Len(log'[d].arg) > Len(KW_hookbeg) + 1)
          => LET h == DirectiveHook(log'[d].arg)
                 v == StrFrom(log'[d].arg, Len(KW_hookbeg) + 1)
                 old == Head(file[cur].curhook)
             IN  /\ cur' = cur /\ Len(file') = Len(file)
                 /\ Cardinality(NewEvents("set_hook")) = 1
                 /\ \A e \in NewEvents("set_hook") :
                       log'[e].arg.hook = h /\ log'[e].arg.value = v
                 /\ Config(file'[cur]) = ConfigWith(Config(file[cur]), h, v)
                 /\ old = file[cur].hook
                 /\ IsPrefix(old.end, Upcoming(file[cur]))
                 /\ Upcoming(file'[cur]) = StrFrom(Upcoming(file[cur]), Len(old.end))
                 /\ in_macro = 1 /\ in_macro' = 0 /\ file'[cur].curhook = <<>>
     /\ (JustSet("beg") /\ IsPrefix(file[cur].hook.beg, Upcoming(file[cur]))
           /\ ~IsPrefix(file[cur].hookesc, Upcoming(file[cur])))
          => /\ in_macro' = 1 /\ cur' = cur
             /\ file'[cur].curhook = <<file[cur].hook>>
             /\ Upcoming(file'[cur])
                  = StrFrom(Upcoming(file[cur]), Len(file[cur].hook.beg))
             /\ output' = output
     /\ (JustSet("esc") /\ IsPrefix(file[cur].hookesc, Upcoming(file[cur]))
           /\ Len(Upcoming(file[cur])) > Len(file[cur].hookesc)
           /\ file[cur].eater = NULL)
          => /\ EscapeConsumed
             /\ output'[1] = IF Escaped \in {SP, NL} THEN output[1]
                             ELSE [output[1] EXCEPT !.data = Append(@, Escaped)]
     /\ (JustSet("end") /\ IsPrefix(file[cur].hook.beg, Upcoming(file[cur]))
           /\ ~IsPrefix(file[cur].hookesc, Upcoming(file[cur])))
          => /\ in_macro' = 1 /\ cur' = cur
             /\ Head(file'[cur].curhook).end = log[Len(log)].arg.value
     /\ (status = "run" /\ cur # 0 /\ in_macro = 1 /\ suspension = 0
           /\ file[cur].multi_ptr = "NULL" /\ ~file[cur].eat_tail
           /\ file[cur].curhook = <<file[cur].hook>> /\ file[cur].hook.end # <<>>
           /\ IsPrefix(file[cur].hook.end, Upcoming(file[cur]))
           /\ ~IsPrefix(file[cur].hookesc, Upcoming(file[cur])))
          => Cardinality(NewEvents("dispatch")) = 1]_vars

\* a finished run of "-<:hookend )>--<)": the directive was closed by
\* ">-" and set only the hook-end, the macro after it was closed by ")"
C25_Witness ==
  /\ status = "done"
  /\ disk[MainName] = <<45, 60, 58, 104, 111, 111, 107, 101, 110, 100, 32, 41, 62, 45,
                        45, 60>> \o <<41>>
  /\ \E e \in Events("set_hook") :
        /\ log[e].arg.hook = "end"
        /\ log[e].arg.before.hook = [beg |-> HOOKBEG_DEFAULT, end |-> HOOKEND_DEFAULT, susp |-> NULL]
        /\ log[e].arg.after.hook = [beg |-> HOOKBEG_DEFAULT, end |-> <<41>>, susp |-> NULL]
        /\ log[e].arg.after.hookesc = log[e].arg.before.hookesc
        /\ \E d \in Events("dispatch") : d > e /\ log[d].arg = <<>>

\* C26: whatever directives and callbacks were run, also with an empty
\* argument, the hook-begin and the hook-end of every source on the stack
\* are strings of at least one byte.
C26_HooksAreNotEmpty ==
  \A i \in DOMAIN file :
     /\ file[i].hook.beg \notin {<<>>, NULL}
     /\ file[i].hook.end \notin {<<>>, NULL}

\* the number of calls of Mucgly.multihook in the script of the main file
Adds == Cardinality({i \in DOMAIN disk[MainName] : disk[MainName][i] = 109})

\* a vector of n pairs "[" "]"
Pairs(n) == [k \in 1..n |-> hookpair(<<91>>, <<93>>, NULL)]

\* C27: sf_multi_hook adds the 1st up to the 127th pair of a source, and on
\* the 128th call the process ends in the fatal state with the vector as
\* the 127th call left it; no source ever has more than 127 pairs, a source
\* that inherits a full vector included: it gets the 127 pairs.
C27_MultiLimit ==
  [][/\ \A i \in DOMAIN file' : Len(file'[i].multi) <= MULTI_LIMIT - 1
     /\ (status = "run" /\ Len(file) = 1 /\ in_macro = 1 /\ NewEvents("dispatch") # {})
          => IF Adds <= MULTI_LIMIT - 1
             THEN /\ status' = "run"
                  /\ FromBottom(file', 1).multi = Pairs(Adds)
                  /\ \A i \in NewEvents("push") :
                        /\ Len(file') = 2
                        /\ FromBottom(file', 2).multi = Pairs(Adds)
                        /\ FromBottom(file', 2).filename = IncName
             ELSE /\ status' = "fatal"
                  /\ Len(file') = 1
                  /\ file'[1].multi = Pairs(MULTI_LIMIT - 1)
                  /\ NewEvents("push") = {}]_vars

\* the script with 128 calls was dispatched: the process is in the fatal
\* state and the source has 127 pairs
C27_Witness ==
  /\ Adds = MULTI_LIMIT
  /\ status = "fatal"
  /\ Len(file) = 1 /\ Len(file[1].multi) = MULTI_LIMIT - 1
  /\ Events("dispatch") # {}

\* C28: the message of an end of source met inside a macro starts with a
\* location: the name of a source that was pushed, the one in which the
\* macro was opened, and a line and a column counted from 1.  (The formula
\* asks for the least of it: a location at all, in a source of the run.)
C28_EofInMacroIsLocated ==
  \A i \in Events("error") :
     log[i].arg.msg = "Got EOF within macro!"
       => /\ log[i].arg.at # <<>>
          /\ \E j \in Events("push") :
                j < i /\ log[j].arg.filename = log[i].arg.at[1].filename

\* C29: the dispatch of a macro whose effective body starts with ":exit"
\* ends the main loop in the same iteration, without an error: the step
\* writes nothing, reads nothing after the hook-end of the macro and leaves
\* every source on the stack; once the loop has ended no source is read and
\* no output is written any more, so what was written before stays.
C29_ExitEndsTheRun ==
  [][/\ \A d \in NewEvents("dispatch") :
          IsPrefix(KW_exit, log'[d].arg)
            => /\ status' = "done"
               /\ output' = output
               /\ cur' = cur /\ Len(file') = Len(file)
               /\ \A i \in DOMAIN file : i # cur => file'[i] = file[i]
               /\ Upcoming(file'[cur])
                    = StrFrom(Upcoming(file[cur]), Len(Head(file[cur].curhook).end))
     /\ Over => UNCHANGED vars]_vars

\* the run of "a-<:exit>-a" is over: ":exit" was dispatched, the output is
\* the first "a" and the second is still in the source
C29_Witness ==
  /\ disk[MainName] = <<97, 45, 60, 58, 101, 120, 105, 116, 62, 45, 97>>
  /\ status = "done"
  /\ \E d \in Events("dispatch") : log[d].arg = KW_exit
  /\ output[1].data = <<97>>
  /\ cur = 1 /\ Upcoming(file[1]) = <<97>>

\* C30: at the start of every iteration of the main loop with a macro open
\* (in_macro > 0) and a source on the stack, the number of pairs on the
\* curhook stack of the top source is in_macro; pushing an included source
\* and popping a source at its end keep it so.
C30_CurhookDepthIsInMacro ==
  (status = "run" /\ in_macro > 0 /\ cur # 0) => Len(file[cur].curhook) = in_macro

\* the pushes of the file named n, and its pops at its end
PushesOf(n) == {i \in Events("push") : log[i].arg.filename = n}
EofPopsOf(n) == {i \in Events("pop") : log[i].arg.filename = n /\ log[i].arg.eof}

\* C31: when a run has ended cleanly, every source that was pushed, two
\* pushed by one script included, was read to its end and popped there:
\* none is left unread on the stack or out of reach.
C31_BothPushedSourcesAreRead ==
  status = "done"
    => /\ \A n \in {MainName, IncName, SrcName} :
             Cardinality(PushesOf(n)) = Cardinality(EofPopsOf(n))
       /\ file = <<>>

\* the top source has the escape next, then the first byte of the eater,
\* and the bytes from there on are not the whole eater
FailedEaterNext ==
  /\ status = "run" /\ cur # 0
  /\ file[cur].eater # NULL /\ ~file[cur].eat_tail
  /\ IsPrefix(file[cur].hookesc, Upcoming(file[cur]))
  /\ Len(Upcoming(file[cur])) > Len(file[cur].hookesc)
  /\ Escaped = file[cur].eater[1]
  /\ ~IsPrefix(file[cur].eater, StrFrom(Upcoming(file[cur]), Len(file[cur].hookesc)))

\* C32: the escape followed by the first byte of the eater, where the input
\* does not go on with the whole eater: the step consumes the escape and
\* that byte and emits the byte once, to the output outside a macro and to
\* the macro body inside; the next iteration starts after the byte.
C32_FailedEaterProbeEmitsOnce ==
  [][FailedEaterNext =>
       /\ status' = "run" /\ cur' = cur /\ Len(file') = Len(file)
       /\ Upcoming(file'[cur]) = StrFrom(Upcoming(file[cur]), Len(file[cur].hookesc) + 1)
       /\ IF in_macro = 0
          THEN /\ output'[1].data = Append(output[1].data, Escaped)
               /\ macro_buf' = macro_buf
          ELSE /\ macro_buf' = Append(macro_buf, Escaped)
               /\ output' = output]_vars

\* the delimiters the main loop can probe for on the source sf: its escape,
\* its pair, its eater, the pairs of its vector and the pairs it has open
Delims(sf) ==
  ({sf.hookesc, sf.hook.beg, sf.hook.end, sf.eater}
     \cup UNION {{sf.multi[i].beg, sf.multi[i].end, sf.multi[i].susp} : i \in DOMAIN sf.multi}
     \cup UNION {{sf.curhook[i].beg, sf.curhook[i].end, sf.curhook[i].susp} :
                   i \in DOMAIN sf.curhook})
    \ {NULL, <<>>}

\* the bytes sf_get delivers from the source before it returns EOF: a
\* pushed-back byte is read as a char, so on a build with signed char a
\* pushed-back 0xFF is EOF
RECURSIVE UpToEOF(_)
UpToEOF(b) ==
  IF b = <<>> \/ CharVal(Head(b)) = EOF THEN <<>> ELSE <<Head(b)>> \o UpToEOF(Tail(b))

Readable(sf) ==
  LET pushed == [i \in 1..Len(sf.buf) |-> sf.buf[Len(sf.buf) - i + 1]]
  IN  IF UpToEOF(pushed) = pushed THEN pushed \o sf.fh ELSE UpToEOF(pushed)

\* what ps_check of m with erase does to the state P: on a match exactly
\* the bytes of m are gone from the top source, otherwise the top source
\* delivers what it delivered; no source is popped either way
CleanProbe(P, m) ==
  LET r == ps_check(P, m, TRUE)
      before == Readable(P.file[P.cur])
  IN  /\ r.P.status = "run" /\ r.P.cur = P.cur /\ Len(r.P.file) = Len(P.file)
      /\ r.P.log = P.log
      /\ r.ret = IsPrefix(m, before)
      /\ Readable(r.P.file[P.cur]) = IF r.ret THEN StrFrom(before, Len(m)) ELSE before
      /\ \A i \in DOMAIN P.file : i # P.cur => r.P.file[i] = P.file[i]

\* C33: a probe that does not match, also one that finds fewer bytes than
\* the delimiter has, leaves the bytes of the top source as they were and
\* pops nothing; a probe with erase that matches takes exactly the bytes of
\* the delimiter; and no probe of the main loop has read nothing (the
\* delimiters are not empty).  The probes are those of a source that holds
\* at least one byte, as the main loop puts the byte it read back first.
C33_ProbesAreClean ==
  /\ Events("empty_read") = {}
  /\ (status = "run" /\ cur # 0 /\ ~file[cur].eat_tail /\ Readable(file[cur]) # <<>>)
       => \A m \in Delims(file[cur]) : CleanProbe(State, m)

\* C34: in multi mode, inside a macro (no suspension pending), the hook-end
\* of a pair other than the one that opened the current level does not
\* close anything: its byte is appended to the body, the level and the
\* curhook stack stay as they are and nothing is written or dispatched.
\* The hook-end of the pair that opened the current level closes it: a
\* nested level (in_macro >= 2) is left with that pair popped from the
\* curhook stack and the body untouched, after which the pair below is the
\* current one again; the outermost level (in_macro = 1) is dispatched.
C34_OnlyTheOpeningPairCloses ==
  [][(status = "run" /\ cur # 0 /\ in_macro >= 1 /\ suspension = 0
        /\ ~file[cur].eat_tail /\ file[cur].multi_ptr # "NULL"
        /\ Len(file[cur].curhook) = in_macro) =>
       LET sf == file[cur]
           open == Head(sf.curhook)
           next == Upcoming(sf)
       IN /\ \A i \in DOMAIN sf.multi :
               (IsPrefix(sf.multi[i].end, next) /\ ~IsPrefix(open.end, next)) =>
                  /\ status' = "run" /\ cur' = cur
                  /\ in_macro' = in_macro
                  /\ file'[cur].curhook = sf.curhook
                  /\ macro_buf' = Append(macro_buf, Head(next))
                  /\ Upcoming(file'[cur]) = Tail(next)
                  /\ output' = output
                  /\ NewEvents("dispatch") = {}
          /\ (IsPrefix(open.end, next) /\ in_macro >= 2) =>
                  /\ status' = "run" /\ cur' = cur
                  /\ in_macro' = in_macro - 1
                  /\ file'[cur].curhook = Tail(sf.curhook)
                  /\ macro_buf' = macro_buf
                  /\ Upcoming(file'[cur]) = StrFrom(next, Len(open.end))
                  /\ NewEvents("dispatch") = {}
          /\ (IsPrefix(open.end, next) /\ in_macro = 1) =>
                  /\ in_macro' = 0
                  /\ \E i \in NewEvents("dispatch") : log'[i].arg = macro_buf]_vars

\* the run of "(/[/)])" after the two pairs were set: the ")" inside the
\* macro of "[" went to the body, the "]" closed the nested level and the
\* last ")" closed the macro, whose body "//)" was dispatched
C34_Witness ==
  /\ status = "done"
  /\ disk[MainName] = NestPrefix \o <<40, 47, 91, 47, 41, 93, 41>>
  /\ \E i \in Events("dispatch") : log[i].arg = <<47, 47, 41>>
  /\ output[1].data = <<91, 93>>

\* the pairs of the multi vector of sf whose hook-begin the upcoming input
\* starts with
Matching(sf) == {i \in DOMAIN sf.multi : IsPrefix(sf.multi[i].beg, Upcoming(sf))}

\* C35: in multi mode, when the upcoming input starts with the hook-begin of
\* one or more pairs (and with no escape, and inside a macro with neither
\* the suspension marker nor the hook-end of the current pair), the pair of
\* the lowest index among them is pushed on the curhook stack, exactly the
\* bytes of its hook-begin are consumed and in_macro grows by one.
C35_FirstMatchingPairOpens ==
  [][(status = "run" /\ cur # 0 /\ ~file[cur].eat_tail
        /\ file[cur].multi_ptr # "NULL" /\ Matching(file[cur]) # {}
        /\ ~IsPrefix(file[cur].hookesc, Upcoming(file[cur]))
        /\ (in_macro >= 1 =>
               /\ file[cur].curhook # <<>>
               /\ ~IsPrefix(Head(file[cur].curhook).end, Upcoming(file[cur]))
               /\ Head(file[cur].curhook).susp = NULL)) =>
       LET sf == file[cur]
           first == CHOOSE i \in Matching(sf) : \A j \in Matching(sf) : i <= j
       IN /\ status' = "run" /\ cur' = cur
          /\ in_macro' = in_macro + 1
          /\ file'[cur].curhook = <<sf.multi[first]>> \o sf.curhook
          /\ Upcoming(file'[cur]) = StrFrom(Upcoming(sf), Len(sf.multi[first].beg))]_vars

\* with the pairs "(" and "((" in this order the input "((/" has lost its
\* first byte only and the pair of "(" is on the curhook stack
C35_Witness ==
  /\ status = "run" /\ cur # 0 /\ in_macro = 1
  /\ Len(file[cur].multi) = 2
  /\ file[cur].multi[1].beg = <<40>> /\ file[cur].multi[2].beg = <<40, 40>>
  /\ file[cur].curhook = <<file[cur].multi[1]>>
  /\ macro_buf = <<>>
  /\ Upcoming(file[cur]) = <<40, 47>>

\* outside a macro, in single mode with the escape equal to the hook-begin
\* and no eater, the top source holds the delimiter and one more byte
EscBegNext ==
  /\ status = "run" /\ cur # 0 /\ in_macro = 0
  /\ ~file[cur].eat_tail
  /\ file[cur].multi_ptr = "NULL"
  /\ file[cur].hookesc = file[cur].hook.beg
  /\ file[cur].eater = NULL
  /\ IsPrefix(file[cur].hookesc, Upcoming(file[cur]))
  /\ Len(Upcoming(file[cur])) > Len(file[cur].hookesc)

\* the step from such a state when the byte after the delimiter is a space
\* or a newline, or the one-byte delimiter again, and what it does when it
\* is another byte c2, up to what becomes of c2
EscBegStep ==
  LET sf == file[cur]
      next == Upcoming(sf)
      c2 == next[Len(sf.hookesc) + 1]
  IN  /\ status' = "run" /\ cur' = cur /\ log' = log
      /\ c2 \in {SP, NL} =>
           /\ output' = output /\ in_macro' = 0
           /\ Upcoming(file'[cur]) = StrFrom(next, Len(sf.hookesc) + 1)
      /\ (Len(sf.hookesc) = 1 /\ c2 = sf.hookesc[1]) =>
           /\ output' = [output EXCEPT ![1].data = output[1].data \o <<c2>>]
           /\ in_macro' = 0
           /\ Upcoming(file'[cur]) = StrFrom(next, 2)
      /\ (c2 \notin {SP, NL} /\ ~(Len(sf.hookesc) = 1 /\ c2 = sf.hookesc[1])) =>
           /\ output' = output /\ in_macro' = 1
           /\ file'[cur].curhook = <<sf.hook>>
           /\ macro_buf' = <<>>
           /\ Upcoming(file'[cur]) = StrFrom(next, Len(sf.hookesc))

\* the byte after the delimiter opens a macro
EscBegEnters ==
  LET c2 == Upcoming(file[cur])[Len(file[cur].hookesc) + 1]
  IN  c2 \notin {SP, NL} /\ ~(Len(file[cur].hookesc) = 1 /\ c2 = file[cur].hookesc[1])

EscEndNext ==
  /\ status = "run" /\ cur # 0 /\ in_macro >= 1
  /\ ~file[cur].eat_tail
  /\ file[cur].multi_ptr = "NULL"
  /\ file[cur].hookesc = file[cur].hook.end
  /\ file[cur].eater = NULL
  /\ Len(file[cur].curhook) = in_macro
  /\ IsPrefix(file[cur].hookesc, Upcoming(file[cur]))
  /\ Len(Upcoming(file[cur])) > Len(file[cur].hookesc)

C38_MacroLevelIsNotNegative ==
  /\ in_macro >= 0
  /\ suspension >= 0

\* the hook-end sequence has just dispatched a macro in which a suspension
\* marker was met and used up by a hook-end: both counters are back at 0
C38_Witness ==
  /\ status = "run"
  /\ in_macro = 0 /\ suspension = 0
  /\ log # <<>> /\ log[Len(log)].ev = "dispatch"
  /\ \E i, j \in DOMAIN log[Len(log)].arg :
        i < j /\ log[Len(log)].arg[i] = 91 /\ log[Len(log)].arg[j] = 41

\* the delimiters that the iteration of the main loop probes in the running
\* state P, whose top source delivers a first byte of a hook: the escape;
\* when that fails, inside a macro the suspension marker of the current
\* pair and then its hook-end; when these fail too, the hook-begin, in
\* multi mode the hook-begins up to the first one that matches
LoopProbes(P) ==
  LET sf == P.file[P.cur]
      next == Readable(sf)
      inside == P.in_macro # 0 /\ sf.curhook # <<>>
      susp == IF inside /\ Head(sf.curhook).susp # NULL THEN {Head(sf.curhook).susp} ELSE {}
      end == IF inside /\ \A m \in susp : ~IsPrefix(m, next)
             THEN {Head(sf.curhook).end} ELSE {}
      begs == IF sf.multi_ptr = "NULL" THEN {sf.hook.beg}
              ELSE {sf.multi[i].beg : i \in {k \in DOMAIN sf.multi :
                       \A j \in 1..(k - 1) : ~IsPrefix(sf.multi[j].beg, next)}}
  IN  IF IsPrefix(sf.hookesc, next) THEN {sf.hookesc}
      ELSE {sf.hookesc} \cup susp \cup end
             \cup (IF \E m \in susp \cup end : IsPrefix(m, next) THEN {} ELSE begs)

\* ps_check of m with erase on the state P leaves the line and the column
\* of the top source as they were when it does not match, and not negative
ProbeKeepsPosition(P, m) ==
  LET r == ps_check(P, m, TRUE)
  IN  (r.P.status = "run" /\ r.P.cur = P.cur /\ Len(r.P.file) = Len(P.file)) =>
         /\ r.P.file[P.cur].lineno >= 0
         /\ r.P.file[P.cur].column >= 0
         /\ ~r.ret =>
              /\ r.P.file[P.cur].lineno = P.file[P.cur].lineno
              /\ r.P.file[P.cur].column = P.file[P.cur].column

\* C39: a probe of the main loop for a delimiter that does not match leaves
\* (lineno, column) of the top source as they were before the probe,
\* whatever the bytes it read and pushed back, two or more newlines
\* included; and lineno and column of every source are never negative,
\* between the iterations and after a probe.
C39_ProbeRestoresPosition ==
  /\ \A i \in DOMAIN file : file[i].lineno >= 0 /\ file[i].column >= 0
  /\ (status = "run" /\ cur # 0 /\ ~file[cur].eat_tail /\ Readable(file[cur]) # <<>>
        /\ Head(Readable(file[cur])) \in file[cur].hook_1st_chars)
       => \A m \in LoopProbes(State) \ {NULL, <<>>} : ProbeKeepsPosition(State, m)

\* the bytes the sources of the stack still hold, pushed back or unread
RECURSIVE InputLeft(_)
InputLeft(files) ==
  IF files = <<>> THEN 0 ELSE Len(Upcoming(Head(files))) + InputLeft(Tail(files))

\* the delimiters of every source are non-empty
NoEmptyDelimiter ==
  \A i \in DOMAIN file : <<>> \notin {file[i].hookesc, file[i].hook.beg, file[i].hook.end}

\* C40: on an input whose delimiters are non-empty and in which no macro
\* pushes a source, every iteration of the main loop leaves at least one
\* byte less in the sources of the stack, or it ends the loop; the loop ends
\* at the end of the input outside a macro (nothing left, in_macro = 0), by
\* the dispatch of a command that starts with ":exit", or in the error
\* state; and it does end.
C40_LoopEnds ==
  /\ [][(status = "run" /\ NoEmptyDelimiter /\ NewEvents("push") = {}) =>
          /\ status' = "run" => InputLeft(file') < InputLeft(file)
          /\ status' # "run" =>
               \/ status' = "done" /\ cur' = 0 /\ in_macro' = 0
               \/ /\ status' = "done"
                  /\ log'[Len(log')].ev = "dispatch"
                  /\ IsPrefix(KW_exit, log'[Len(log')].arg)
               \/ status' = "error"]_vars
  /\ <>(status \notin {"init", "run"})

\* a run that wrote the value of a macro and was ended by ":exit" with a
\* byte of the input still unread
C40_Witness ==
  /\ status = "done" /\ cur # 0
  /\ output[1].data = <<49>>
  /\ log[Len(log)] = [ev |-> "dispatch", arg |-> KW_exit]
  /\ InputLeft(file) = 1

============================================================================
